---- MODULE Spec2Model ----
(***************************************************************************)
(* zerobrew: the parallel, deduplicating bottle downloader                 *)
(* (zb_io/src/download.rs, zb_io/src/blob.rs), the formula API client      *)
(* (zb_io/src/api.rs) and the installer with its reference-counted store   *)
(* (zb_io/src/install.rs, zb_io/src/link.rs).                              *)
(*                                                                         *)
(* The module holds specifications over one set of variables:             *)
(*   DlSpec  - N tasks running ParallelDownloader::download_with_dedup     *)
(*             against one in-flight map, one semaphore and one blob cache *)
(*   Spec    - sequences of Installer::install / uninstall / gc, with      *)
(*             execute_with_progress unrolled into its receive loop        *)
(*   ExecSpec - the same operations in short runs where the environment    *)
(*             fails downloads, extractions and materializations           *)
(*   LinkSpec - Linker::link_keg / unlink_keg called on a prefix whose     *)
(*             bin and opt directories hold arbitrary entries              *)
(*   HbSpec  - the installer's operations on a root beside a foreign       *)
(*             Homebrew Cellar                                             *)
(*   AuthSpec - downloads of one Downloader sharing its bearer tokens      *)
(*   RaceSpec - BlobWriters of several tasks racing for one sha256         *)
(*   PlanSpec - Installer::plan: breadth-first fetch and ordering          *)
(*   ApiSpec - ApiClient::get_formula with its conditional-request cache   *)
(*   StreamSpec - ParallelDownloader::download_streaming feeding the       *)
(*             installer's receive loop                                    *)
(*   PatchSpec - patch_text_file_strings and patch_macho_binary_strings    *)
(*             called on one file                                          *)
(*   MachoPassSpec - the parallel Mach-O pass over the files of a keg      *)
(* DlFairSpec, PlanFairSpec and StreamFairSpec add the fairness of the     *)
(* runtime's scheduler for the liveness properties.                        *)
(* Each specification keeps the others' variables fixed.                   *)
(***************************************************************************)
EXTENDS Integers, Sequences, FiniteSets, TLC

(***************************************************************************)
(* Bounds of the model                                                     *)
(***************************************************************************)
\* number of concurrent download_with_dedup callers
NTasks == 3
\* number of distinct sha256 values the callers may request
NShas == 3
\* ParallelDownloader::new(blob_cache, concurrency)
Concurrency == 2

ShaPool == <<"s1", "s2", "s3", "s4", "s5">>
DlShas == {ShaPool[i] : i \in 1..NShas}
Tasks == 1..NTasks

VARIABLES
    \* ---- parallel downloader ----
    inflight,     \* InflightMap: sha256 -> id of the broadcast channel (its creator)
    semaphore,    \* permits available in the download semaphore
    blobs,        \* BlobCache: sha256 values with a committed cache/blobs/<sha>.tar.gz
    tmp,          \* cache/tmp: the temp paths that exist
    content,      \* per blob a download committed: the sha256 of the bytes in it
    pc,           \* per task: position inside download_with_dedup
    req,          \* per task: the sha256 of its DownloadRequest
    rx,           \* per task: the broadcast channel it subscribed to (0: none)
    result,       \* per task: the Result returned by download_with_dedup
    chan,         \* per broadcast channel: the value sent on it (NoMsg: none yet)
    gets,         \* per sha256: GET requests the origin server has received
    served,       \* per sha256: responses of the origin server so far that failed
    \* ---- installer: database ----
    installed,    \* installed table: name -> row (NoRow: none)
    store_refs,   \* store_refs table: store_key -> refcount
    linked_files, \* linked_files table: row -> number of copies of that row
    \* ---- installer: file system ----
    store,        \* store keys with an extracted, non-empty store/<key>/
    kegs,         \* <<name, version>> with a keg directory in the Cellar
    bin,          \* <prefix>/bin: file name -> what occupies that path
    opt,          \* <prefix>/opt: name -> what occupies that path
    hb_cellar,    \* names with a directory in the foreign Homebrew Cellar
    \* ---- installer: execute_with_progress in progress ----
    phase,        \* "idle" between operations, "recv" inside the receive loop
    exec,         \* locals of the running execute_with_progress
    \* ---- what the caller saw ----
    ops_left,     \* operations the run may still begin
    faults_left,  \* failures the environment may still produce
    last,         \* the operation that returned last, and what it returned
    mon,          \* database and store as they were when the operation began
    \* ---- bearer tokens of one Downloader ----
    token_cache,  \* Downloader.token_cache: scope -> CachedToken
    now,          \* Instant::now(), in seconds
    adl,          \* per download: position in download_with_progress and its traffic
    issued,       \* per token the token endpoint returned: scope and time of caching
    \* ---- BlobWriters racing for one sha256 ----
    bw,           \* per BlobWriter: its thread, file handle and position in its life
    tmp_dir,      \* cache/tmp: temp path -> the file (inode) the entry names
    final_blob,   \* cache/blobs/<sha>.tar.gz: the file the entry names (0: none)
    inodes,       \* per file: its bytes
    \* ---- Installer::plan ----
    registry,     \* the formula API: name -> the dependency list it serves
    ppc,          \* position inside plan
    fa,           \* locals of fetch_all_formulas: formulas, fetched, to_fetch
    api_gets,     \* per name: get_formula calls made for it
    planned,      \* what plan returned
    \* ---- ApiClient with its conditional-request cache ----
    api_cache,    \* ApiCache: url -> CacheEntry (NoEntry: none)
    api_pc,       \* position inside get_formula
    api_req,      \* the request get_formula sent and the entry it read
    api_result,   \* what the last get_formula returned
    api_calls,    \* get_formula calls the run may still begin
    \* ---- ParallelDownloader::download_streaming and its consumer ----
    stream,       \* the mpsc channel, the spawned tasks and the receive loop
    \* ---- the Mach-O patcher ----
    patch         \* the files of a keg and the patch passes over them

dlVars == <<inflight, semaphore, tmp, content, pc, req, rx, result, chan, gets, served>>
instVars == <<installed, store_refs, linked_files, store, kegs, bin, opt,
              hb_cellar, phase, exec, ops_left, faults_left, last, mon>>
authVars == <<token_cache, now, adl, issued>>
raceVars == <<bw, tmp_dir, final_blob, inodes>>
planVars == <<registry, ppc, fa, api_gets, planned>>
apiVars == <<api_cache, api_pc, api_req, api_result, api_calls>>
tailVars == <<stream, patch>>
\* the variables of the specifications that follow the installer's
extVars == <<authVars, raceVars, planVars, apiVars, tailVars>>
vars == <<inflight, semaphore, blobs, tmp, content, pc, req, rx, result, chan, gets, served,
          installed, store_refs, linked_files, store, kegs, bin, opt,
          hb_cellar, phase, exec, ops_left, faults_left, last, mon,
          token_cache, now, adl, issued, bw, tmp_dir, final_blob, inodes,
          registry, ppc, fa, api_gets, planned,
          api_cache, api_pc, api_req, api_result, api_calls, stream, patch>>

\* the variables of a part of the program that a specification leaves out
AuthOff == token_cache = <<>> /\ now = 0 /\ adl = <<>> /\ issued = <<>>
RaceOff == bw = <<>> /\ tmp_dir = <<>> /\ final_blob = 0 /\ inodes = <<>>
PlanOff == registry = <<>> /\ ppc = "none" /\ fa = <<>> /\ api_gets = <<>> /\ planned = <<>>
ApiOff ==
    /\ api_cache = <<>> /\ api_pc = "none" /\ api_req = <<>> /\ api_result = <<>>
    /\ api_calls = 0
StreamOff == stream = <<>>
PatchOff == patch = <<>>
TailOff == StreamOff /\ PatchOff
ExtOff == AuthOff /\ RaceOff /\ PlanOff /\ ApiOff /\ TailOff
DlOff ==
    /\ inflight = <<>> /\ semaphore = 0 /\ blobs = {} /\ tmp = {} /\ content = <<>>
    /\ pc = <<>> /\ req = <<>> /\ rx = <<>> /\ result = <<>> /\ chan = <<>>
    /\ gets = <<>> /\ served = <<>>
InstOff ==
    /\ installed = <<>> /\ store_refs = <<>> /\ linked_files = <<>>
    /\ store = {} /\ kegs = {} /\ bin = <<>> /\ opt = <<>> /\ hb_cellar = {}
    /\ phase = "none" /\ exec = <<>> /\ ops_left = 0 /\ faults_left = 0 /\ last = <<>>
    /\ mon = <<>>

\* what the specification of one part leaves unchanged
baseVars == <<dlVars, blobs, instVars>>
authOthers == <<baseVars, raceVars, planVars, apiVars, tailVars>>
raceOthers == <<baseVars, authVars, planVars, apiVars, tailVars>>
planOthers == <<baseVars, authVars, raceVars, apiVars, tailVars>>
apiOthers == <<baseVars, authVars, raceVars, planVars, tailVars>>
streamOthers == <<baseVars, authVars, raceVars, planVars, apiVars, patch>>
patchOthers == <<baseVars, authVars, raceVars, planVars, apiVars, stream>>

(***************************************************************************)
(* Results and errors (zb_core/src/errors.rs)                              *)
(***************************************************************************)
NoResult == [ok |-> FALSE, path |-> "", kind |-> "none", message |-> ""]
NoMsg == [sent |-> FALSE, ok |-> FALSE, path |-> "", message |-> ""]

Ok(path) == [ok |-> TRUE, path |-> path, kind |-> "", message |-> ""]
Err(kind, message) == [ok |-> FALSE, path |-> "", kind |-> kind, message |-> message]

\* the digest of a body that is not the bottle asked for
BadDigest == "bad"

\* impl fmt::Display for Error: the text a broadcast carries for a failed
\* download. The message of a ChecksumMismatch is the expected digest, of a
\* LinkConflict the path, of a NotInstalled the name.
to_string(e) ==
    CASE e.kind = "ChecksumMismatch" ->
             "checksum mismatch (expected " \o e.message \o ", got " \o BadDigest \o ")"
      [] e.kind = "LinkConflict" -> "link conflict at '" \o e.message \o "'"
      [] e.kind = "StoreCorruption" -> "store corruption: " \o e.message
      [] e.kind = "NetworkFailure" -> "network failure: " \o e.message
      [] e.kind = "NotInstalled" -> "formula '" \o e.message \o "' is not installed"
      [] OTHER -> e.message

\* BlobCache::blob_path: the path is a function of the sha256 alone
blob_path(sha) == sha \o ".tar.gz"

\* a cache that reports every blob as missing
has_blob_never(sha) == FALSE

\* BlobCache::has_blob
has_blob(sha) == sha \in blobs

(***************************************************************************)
(* The origin server: what one GET of a bottle can come back with          *)
(***************************************************************************)
\* the status line: 2xx, or anything else
Statuses == {"success", "http_error"}
\* the body of a 2xx response: the bottle, other bytes, or a stream that breaks
\* off with an error before its end
Bodies == {"ok", "bad_body", "stream_error"}
Responses == {"http_error"} \cup Bodies

\* Downloader::download_with_progress after the GET was sent: a non-2xx status
\* is NetworkFailure, a body whose digest differs is ChecksumMismatch, a chunk
\* that fails to arrive is NetworkFailure, and a body that matches is committed
\* and its path returned.
download_outcome(sha, response) ==
    CASE response = "ok" -> Ok(blob_path(sha))
      [] response = "http_error" -> Err("NetworkFailure", "HTTP 500")
      [] response = "bad_body" -> Err("ChecksumMismatch", sha)
      [] response = "stream_error" -> Err("NetworkFailure", "failed to read chunk")

\* format!("{:x}", hasher.finalize()) over the chunks of a body that arrived
\* whole
digest_of(sha, body) == IF body = "ok" THEN sha ELSE BadDigest

\* a comparison that accepts every digest
digest_matches_always(actual, expected) == TRUE

\* line 286: actual_hash != expected_sha256
digest_matches(actual, expected) == actual = expected

(***************************************************************************)
(* BlobCache and BlobWriter (zb_io/src/blob.rs)                            *)
(***************************************************************************)
\* BlobCache::start_write, the temp path: the callers of one run share the
\* process id and are polled on one worker thread, which leaves the sha256
temp_path(sha) == sha \o ".pid.tid.tar.gz.part"

\* BlobCache::start_write: File::create makes the temp file, or empties it
start_write(T, sha) == T \cup {temp_path(sha)}

\* impl Drop for BlobWriter: a writer that was not committed removes its temp
\* file
drop_writer(T, sha, committed) ==
    IF committed THEN T ELSE T \ {temp_path(sha)}

\* BlobWriter::commit for a writer that wrote bytes of digest written: when the
\* final path exists the temp file is removed and the blob left alone;
\* otherwise the temp file is renamed to the final path, and a rename of a temp
\* file that is gone is a NetworkFailure, after which the writer is dropped
commit(B, T, C, sha, written) ==
    IF sha \in B
    THEN [blobs |-> B, tmp |-> T \ {temp_path(sha)}, content |-> C,
          result |-> Ok(blob_path(sha))]
    ELSE IF temp_path(sha) \in T
    THEN [blobs |-> B \cup {sha}, tmp |-> T \ {temp_path(sha)},
          content |-> [s \in DOMAIN C \cup {sha} |-> IF s = sha THEN written ELSE C[s]],
          result |-> Ok(blob_path(sha))]
    ELSE [blobs |-> B, tmp |-> drop_writer(T, sha, FALSE), content |-> C,
          result |-> Err("NetworkFailure", "failed to rename blob")]

\* Downloader::download_response_with_progress from the first chunk on: an
\* error in the stream and a digest that differs return before commit, so the
\* writer is dropped as it is
download_response(B, T, C, sha, body) ==
    IF body = "stream_error"
    THEN [blobs |-> B, tmp |-> drop_writer(T, sha, FALSE), content |-> C,
          result |-> download_outcome(sha, "stream_error")]
    ELSE IF ~digest_matches(digest_of(sha, body), sha)
    THEN [blobs |-> B, tmp |-> drop_writer(T, sha, FALSE), content |-> C,
          result |-> download_outcome(sha, "bad_body")]
    ELSE commit(B, T, C, sha, digest_of(sha, body))

(***************************************************************************)
(* ParallelDownloader::download_with_dedup, one action per await           *)
(***************************************************************************)
DlInit ==
    /\ inflight = [s \in {} |-> 0]
    /\ semaphore = Concurrency
    /\ blobs = {}
    /\ tmp = {}
    /\ content = <<>>
    /\ pc = [t \in Tasks |-> "start"]
    \* the requests up to a renaming of the sha256 values: a caller asks for a
    \* value an earlier caller asks for, or for the first value not yet named
    /\ req \in {r \in [Tasks -> DlShas] :
                  \A t \in Tasks, i \in 1..NShas :
                      r[t] = ShaPool[i] =>
                          \A j \in 1..(i - 1) : \E u \in 1..(t - 1) : r[u] = ShaPool[j]}
    /\ rx = [t \in Tasks |-> 0]
    /\ result = [t \in Tasks |-> NoResult]
    /\ chan = [t \in Tasks |-> NoMsg]
    /\ gets = [s \in DlShas |-> 0]
    /\ served = [s \in DlShas |-> 0]
    /\ installed = <<>> /\ store_refs = <<>> /\ linked_files = <<>>
    /\ store = {} /\ kegs = {} /\ bin = <<>> /\ opt = <<>> /\ hb_cellar = {}
    /\ phase = "none" /\ exec = <<>> /\ ops_left = 0 /\ faults_left = 0 /\ last = <<>>
    /\ mon = <<>>
    /\ ExtOff

\* a lookup that never finds the in-flight request
has_inflight_never(sha) == FALSE

\* map.get(&req.sha256): is there an in-flight request to subscribe to
has_inflight(sha) == sha \in DOMAIN inflight

\* lines 456-468: under the map's lock, subscribe to the in-flight request for
\* this sha256 or register a new broadcast channel and become the downloader
DlLookup(t) ==
    /\ pc[t] = "start"
    /\ IF has_inflight(req[t])
       THEN /\ rx' = [rx EXCEPT ![t] = inflight[req[t]]]
            /\ pc' = [pc EXCEPT ![t] = "waiting"]
            /\ UNCHANGED inflight
       ELSE /\ inflight' = [s \in DOMAIN inflight \cup {req[t]} |->
                               IF s = req[t] THEN t ELSE inflight[s]]
            /\ pc' = [pc EXCEPT ![t] = "acquire"]
            /\ UNCHANGED rx
    /\ UNCHANGED <<semaphore, blobs, tmp, content, req, result, chan, gets, served, instVars, extVars>>

\* a subscriber that reports every broadcast failure as a ChecksumMismatch
from_broadcast_as_checksum(msg) ==
    IF msg.ok THEN Ok(msg.path) ELSE Err("ChecksumMismatch", msg.message)

\* line 476: a subscriber turns the broadcast value into its own Result
from_broadcast(msg) ==
    IF msg.ok THEN Ok(msg.path) ELSE Err("NetworkFailure", msg.message)

\* lines 470-477: rx.recv().await, then return
DlRecv(t) ==
    /\ pc[t] = "waiting"
    /\ chan[rx[t]].sent
    /\ result' = [result EXCEPT ![t] = from_broadcast(chan[rx[t]])]
    /\ pc' = [pc EXCEPT ![t] = "done"]
    /\ UNCHANGED <<inflight, semaphore, blobs, tmp, content, req, rx, chan, gets, served, instVars, extVars>>

\* a semaphore that never makes a caller wait
permit_free_always == TRUE

\* Semaphore::acquire: a permit is there to take
permit_free == semaphore > 0

\* lines 480-482: semaphore.acquire().await
DlAcquire(t) ==
    /\ pc[t] = "acquire"
    /\ permit_free
    /\ semaphore' = semaphore - 1
    /\ pc' = [pc EXCEPT ![t] = "holding"]
    /\ UNCHANGED <<inflight, blobs, tmp, content, req, rx, result, chan, gets, served, instVars, extVars>>

\* Downloader::download_with_progress lines 76-97: return the cached blob, or
\* send the GET to the origin server
DlRequest(t) ==
    /\ pc[t] = "holding"
    /\ IF has_blob(req[t])
       THEN /\ result' = [result EXCEPT ![t] = Ok(blob_path(req[t]))]
            /\ pc' = [pc EXCEPT ![t] = "notify"]
            /\ UNCHANGED gets
       ELSE /\ gets' = [gets EXCEPT ![req[t]] = @ + 1]
            /\ pc' = [pc EXCEPT ![t] = "downloading"]
            /\ UNCHANGED result
    /\ UNCHANGED <<inflight, semaphore, blobs, tmp, content, req, rx, chan, served, instVars, extVars>>

\* Downloader::download_with_progress lines 99-111 and
\* download_response_with_progress up to its first stream.next().await: a
\* non-2xx status returns NetworkFailure, a 2xx status opens the blob writer
DlRespond(t, status) ==
    /\ pc[t] = "downloading"
    /\ IF status = "http_error"
       THEN /\ result' = [result EXCEPT ![t] = download_outcome(req[t], status)]
            /\ served' = [served EXCEPT ![req[t]] = @ + 1]
            /\ pc' = [pc EXCEPT ![t] = "notify"]
            /\ UNCHANGED tmp
       ELSE /\ tmp' = start_write(tmp, req[t])
            /\ pc' = [pc EXCEPT ![t] = "streaming"]
            /\ UNCHANGED <<result, served>>
    /\ UNCHANGED <<inflight, semaphore, blobs, content, req, rx, chan, gets, instVars, extVars>>

\* download_response_with_progress lines 263-302: the chunks arrive and are
\* hashed and written, then the digest is compared and the writer committed
DlStream(t, body) ==
    LET r == download_response(blobs, tmp, content, req[t], body) IN
    /\ pc[t] = "streaming"
    /\ result' = [result EXCEPT ![t] = r.result]
    /\ blobs' = r.blobs
    /\ tmp' = r.tmp
    /\ content' = r.content
    /\ served' = IF body = "ok" THEN served
                 ELSE [served EXCEPT ![req[t]] = @ + 1]
    /\ pc' = [pc EXCEPT ![t] = "notify"]
    /\ UNCHANGED <<inflight, semaphore, req, rx, chan, gets, instVars, extVars>>

\* a downloader that sends nothing to its subscribers
broadcast_nothing(r) == NoMsg

\* lines 492-495: the value put on the broadcast channel
broadcast_result(r) ==
    IF r.ok THEN [sent |-> TRUE, ok |-> TRUE, path |-> r.path, message |-> ""]
    ELSE [sent |-> TRUE, ok |-> FALSE, path |-> "", message |-> to_string(r)]

\* lines 489-500: under the map's lock remove the entry and send the result
\* to the subscribers; the function returns and the permit is dropped
DlNotify(t) ==
    /\ pc[t] = "notify"
    /\ IF req[t] \in DOMAIN inflight
       THEN /\ chan' = [chan EXCEPT ![inflight[req[t]]] = broadcast_result(result[t])]
            /\ inflight' = [s \in DOMAIN inflight \ {req[t]} |-> inflight[s]]
       ELSE UNCHANGED <<chan, inflight>>
    /\ semaphore' = semaphore + 1
    /\ pc' = [pc EXCEPT ![t] = "done"]
    /\ UNCHANGED <<blobs, tmp, content, req, rx, result, gets, served, instVars, extVars>>

DlNext ==
    \/ \E t \in Tasks : DlLookup(t)
    \/ \E t \in Tasks : DlRecv(t)
    \/ \E t \in Tasks : DlAcquire(t)
    \/ \E t \in Tasks : DlRequest(t)
    \/ \E t \in Tasks, status \in Statuses : DlRespond(t, status)
    \/ \E t \in Tasks, body \in Bodies : DlStream(t, body)
    \/ \E t \in Tasks : DlNotify(t)

DlSpec == DlInit /\ [][DlNext]_vars

\* the runtime keeps polling the spawned tasks and the server answers every
\* request it received: some step that can be taken is taken
DlFairSpec == DlSpec /\ WF_vars(DlNext)

(***************************************************************************)
(* The installer's world: formulas, bottles, kegs and the prefix           *)
(***************************************************************************)
Names == {"a", "b"}
Versions == {"1", "2"}
InstShas == {ShaPool[1], ShaPool[2]}

\* the executables the bottle of a formula carries in its bin directory
BinFiles(n) == IF n = "a" THEN {"fa", "fx"} ELSE {"fb"}
Files == UNION {BinFiles(n) : n \in Names}

\* every file of the bottle, as <<directory of the keg, file name>>: next to
\* its executables formula a carries a file under share and formula b a
\* library under lib
KegFiles(n) ==
    {<<"bin", f>> : f \in BinFiles(n)}
        \cup (IF n = "a" THEN {<<"share", "sa">>} ELSE {<<"lib", "lb">>})

\* one entry of an InstallPlan: Formula.name, Formula.versions.stable and
\* SelectedBottle.sha256. The formula API serves formula a at version 1 and,
\* after a release, at version 2 with a new bottle; the bottle of formula b is
\* the archive that a's first bottle is.
Pkgs == {[name |-> "a", version |-> "1", sha |-> ShaPool[1]],
         [name |-> "a", version |-> "2", sha |-> ShaPool[2]],
         [name |-> "b", version |-> "1", sha |-> ShaPool[1]]}

\* longest InstallPlan the model installs
MaxPlan == 2
\* longest sequence of install, uninstall and gc calls (Spec)
MaxOps == 4
\* failures of a download, an extraction or a materialization that the
\* environment produces during one execute (ExecSpec)
MaxFaults == 2
\* longest sequence of install, uninstall and gc calls (ExecSpec)
ExecOps == 2

RECURSIVE SeqsOver(_, _)
SeqsOver(S, n) ==
    IF n = 0 THEN {<<>>}
    ELSE LET shorter == SeqsOver(S, n - 1)
         IN shorter \cup {Append(q, x) : q \in {r \in shorter : Len(r) = n - 1}, x \in S}

\* InstallPlan.formulas zipped with InstallPlan.bottles: resolve_closure lists
\* every formula of the closure once
Plans ==
    {pl \in SeqsOver(Pkgs, MaxPlan) :
        /\ pl # <<>>
        /\ \A i, j \in 1..Len(pl) : i # j => pl[i].name # pl[j].name}

\* the orders in which fs::read_dir may list a set of directory entries
Orders(S) == {o \in SeqsOver(S, Cardinality(S)) :
                 Len(o) = Cardinality(S) /\ {o[i] : i \in 1..Len(o)} = S}

\* paths a symlink can point to: a file of a keg, a keg directory, an existing
\* path that belongs to another package manager, or a path that does not exist
NoTarget == [name |-> "", version |-> "", file |-> ""]
KegFile(n, v, f) == [name |-> n, version |-> v, file |-> f]
KegDir(n, v) == [name |-> n, version |-> v, file |-> ""]
Foreign == [name |-> "foreign", version |-> "", file |-> ""]
\* the same foreign path written relative to the directory of the link
ForeignRel == [name |-> "../foreign", version |-> "", file |-> ""]
Gone == [name |-> "gone", version |-> "", file |-> ""]

\* what occupies a path of the prefix
Empty == [type |-> "none", to |-> NoTarget]
RegularFile == [type |-> "file", to |-> NoTarget]
Symlink(t) == [type |-> "symlink", to |-> t]

\* lines 58-65: a relative link target is joined to the parent directory of
\* the link
resolved_existing(t) == IF t = ForeignRel THEN Foreign ELSE t

\* a canonicalize that fails on every path
resolves_never(t, K) == FALSE

\* a canonicalize that succeeds on every path
resolves_always(t, K) == TRUE

\* fs::canonicalize(path).ok().is_some(): the path resolves to something
resolves(t, K) ==
    \/ t.name = "foreign"
    \/ t.name \in Names /\ <<t.name, t.version>> \in K

\* a comparison that never finds the keg's own symlink
same_canonical_never(occ, t, K) == FALSE

\* a comparison that takes every symlink for the keg's own
same_canonical_any(occ, t, K) == occ.type = "symlink"

\* existing_canonical.is_some() && existing_canonical == target_canonical
same_canonical(occ, t, K) ==
    /\ occ.type = "symlink"
    /\ resolves(resolved_existing(occ.to), K)
    /\ resolved_existing(occ.to) = t

(***************************************************************************)
(* Linker (zb_io/src/link.rs)                                              *)
(***************************************************************************)
\* Linker::link_opt: keep an opt symlink that resolves to this keg, replace
\* whatever else is there
link_opt(O, K, n, v) ==
    IF O[n].type # "none" /\ same_canonical(O[n], KegDir(n, v), K)
    THEN O
    ELSE [O EXCEPT ![n] = Symlink(KegDir(n, v))]

\* Linker::link_keg, the loop over the keg's bin directory in the order
\* read_dir lists it; `linked` collects the LinkedFile records
RECURSIVE link_entries(_, _, _, _, _, _)
link_entries(B, K, n, v, order, linked) ==
    IF order = <<>>
    THEN [ok |-> TRUE, bin |-> B, linked |-> linked, path |-> ""]
    ELSE LET f == Head(order)
             target == KegFile(n, v, f)
             conflict == [ok |-> FALSE, bin |-> B, linked |-> linked, path |-> f]
         IN  IF B[f].type = "none"
             THEN link_entries([B EXCEPT ![f] = Symlink(target)], K, n, v,
                               Tail(order), Append(linked, f))
             ELSE IF B[f].type = "symlink"
             THEN IF same_canonical(B[f], target, K)
                  THEN link_entries(B, K, n, v, Tail(order), Append(linked, f))
                  ELSE IF ~resolves(resolved_existing(B[f].to), K)
                  THEN link_entries([B EXCEPT ![f] = Symlink(target)], K, n, v,
                                    Tail(order), Append(linked, f))
                  ELSE conflict
             ELSE conflict

\* Linker::link_keg
link_keg(B, O, K, n, v, order) ==
    LET r == link_entries(B, K, n, v, order, <<>>)
    IN  [ok |-> r.ok, bin |-> r.bin, opt |-> link_opt(O, K, n, v),
         linked |-> r.linked, path |-> r.path]

\* Linker::unlink_opt
unlink_opt(O, K, n, v) ==
    IF same_canonical(O[n], KegDir(n, v), K)
    THEN [O EXCEPT ![n] = Empty]
    ELSE O

\* an unlink that removes whatever symlink sits at the name of a keg file
unlink_entries_any(B, K, n, v) ==
    [f \in Files |->
        IF f \in BinFiles(n) /\ B[f].type = "symlink" THEN Empty ELSE B[f]]

\* Linker::unlink_keg, the loop over the keg's bin directory: only a symlink
\* that resolves to this keg's file is removed
unlink_entries(B, K, n, v) ==
    [f \in Files |->
        IF f \in BinFiles(n) /\ same_canonical(B[f], KegFile(n, v, f), K)
        THEN Empty ELSE B[f]]

(***************************************************************************)
(* Database (schema and operations as the specification describes them)    *)
(***************************************************************************)
NoRow == [version |-> "", store_key |-> ""]
LinkRows == {<<n, v, f>> : n \in Names, v \in Versions, f \in Files}

refcount(R, k) == IF k \in DOMAIN R THEN R[k] ELSE 0

\* record_install: insert or replace the installed row, increment the
\* refcount of the store key (1 when absent)
record_install(db, n, v, k) ==
    [db EXCEPT
        !.installed = [@ EXCEPT ![n] = [version |-> v, store_key |-> k]],
        !.store_refs = [x \in DOMAIN @ \cup {k} |->
                           IF x = k THEN refcount(@, k) + 1 ELSE @[x]]]

\* record_linked_file: append a row
record_linked_file(db, n, v, f) ==
    [db EXCEPT !.linked_files = [@ EXCEPT ![<<n, v, f>>] = @ + 1]]

\* record_uninstall: delete the linked files and the row of the name,
\* decrement the refcount of the row's store key
record_uninstall(db, n) ==
    LET k == db.installed[n].store_key
    IN  [db EXCEPT
            !.installed = [@ EXCEPT ![n] = NoRow],
            !.linked_files = [r \in LinkRows |-> IF r[1] = n THEN 0 ELSE @[r]],
            !.store_refs = [x \in DOMAIN @ |-> IF x = k THEN @[x] - 1 ELSE @[x]]]

\* get_unreferenced_store_keys: the keys whose refcount is 0
get_unreferenced_store_keys(R) == {k \in DOMAIN R : R[k] = 0}

Db == [installed |-> installed, store_refs |-> store_refs,
       linked_files |-> linked_files]

(***************************************************************************)
(* Installer (zb_io/src/install.rs)                                        *)
(***************************************************************************)
NoExec == [plan |-> <<>>, to_install |-> <<>>, skipped |-> <<>>, link |-> FALSE,
           pending |-> {}, completed |-> <<>>, arrival |-> <<>>,
           error |-> NoResult, first_error |-> NoResult]
NoLast == [op |-> "none", ok |-> FALSE, name |-> "", plan |-> <<>>, link |-> FALSE,
           count |-> 0, skipped |-> <<>>, err |-> NoResult,
           first_err |-> NoResult, removed |-> {}, arrival |-> <<>>,
           committed |-> <<>>, version |-> "", order |-> <<>>, linked |-> <<>>,
           found |-> <<>>, again |-> FALSE]
NoDb == [installed |-> [n \in Names |-> NoRow],
         store_refs |-> [k \in {} |-> 0],
         linked_files |-> [r \in LinkRows |-> 0]]
NoTriple == [stage |-> 0, name |-> "", version |-> "", sha |-> "", new |-> FALSE]
NoMon == [repeat |-> FALSE, db |-> NoDb, triple |-> NoTriple, gc_store |-> {}]
NotCompleted == [some |-> FALSE, linked |-> <<>>]

\* a test that finds no formula in the foreign Cellar
is_in_homebrew_never(n) == FALSE

\* Installer::is_in_homebrew
is_in_homebrew(n) == n \in hb_cellar

\* lines 174-186: the partition of the plan
to_install_of(plan) == SelectSeq(plan, LAMBDA p : ~is_in_homebrew(p.name))
skipped_of(plan) ==
    LET hb == SelectSeq(plan, LAMBDA p : is_in_homebrew(p.name))
    IN  [i \in 1..Len(hb) |-> hb[i].name]

\* what the running operation is measured against: the database when an
\* install repeats the install before it, and whether the plan is one
\* formula that is new to the root
mon_at_begin(plan, link) ==
    LET root == plan[Len(plan)]
        same == last.op = "install" /\ last.ok /\ last.plan = plan /\ last.link = link
    IN  [repeat |-> same,
         db |-> IF same THEN Db ELSE NoDb,
         triple |-> [stage |-> 1, name |-> root.name, version |-> root.version,
                     sha |-> root.sha,
                     new |-> /\ Len(plan) = 1
                             /\ installed[root.name] = NoRow
                             /\ root.sha \notin DOMAIN store_refs
                             /\ root.sha \notin store
                             /\ \A v \in Versions : <<root.name, v>> \notin kegs
                             /\ ~is_in_homebrew(root.name)],
         gc_store |-> {}]

\* lines 173-217: partition the plan, return at once when nothing is left to
\* install, otherwise start the streaming downloads and enter the loop
ExecBegin(plan, link) ==
    /\ phase = "idle"
    /\ ops_left > 0
    /\ ops_left' = ops_left - 1
    /\ mon' = mon_at_begin(plan, link)
    /\ IF to_install_of(plan) = <<>>
       THEN /\ last' = [NoLast EXCEPT !.op = "install", !.ok = TRUE,
                           !.name = plan[Len(plan)].name, !.plan = plan,
                           !.link = link, !.skipped = skipped_of(plan)]
            /\ UNCHANGED <<phase, exec>>
       ELSE /\ phase' = "recv"
            /\ exec' = [plan |-> plan,
                        to_install |-> to_install_of(plan),
                        skipped |-> skipped_of(plan),
                        link |-> link,
                        pending |-> 1..Len(to_install_of(plan)),
                        completed |-> [i \in 1..Len(to_install_of(plan)) |-> NotCompleted],
                        arrival |-> <<>>,
                        error |-> NoResult,
                        first_error |-> NoResult]
            /\ UNCHANGED last
    /\ UNCHANGED <<installed, store_refs, linked_files, store, kegs, bin, opt,
                   hb_cellar, faults_left, blobs, dlVars, extVars>>

\* what reaches the loop for one request, and what the stages after the
\* download can fail with
Outcomes == {"ok", "http_error", "bad_body", "extract_fail", "materialize_fail"}

\* lines 222-284: one iteration of the receive loop for the package pkg
process(pkg, outcome, order, link) ==
    LET n == pkg.name
        v == pkg.version
        base == [store |-> store, kegs |-> kegs, bin |-> bin, opt |-> opt,
                 blobs |-> blobs, error |-> NoResult, some |-> FALSE, linked |-> <<>>]
        got == [base EXCEPT !.blobs = blobs \cup {pkg.sha}]
        extracted == [got EXCEPT !.store = store \cup {pkg.sha}]
        kegged == [extracted EXCEPT !.kegs = kegs \cup {<<n, v>>}]
        lk == link_keg(bin, opt, kegged.kegs, n, v, order)
    IN  IF outcome \in {"http_error", "bad_body"}
        THEN [base EXCEPT !.error = download_outcome(pkg.sha, outcome)]
        ELSE IF outcome = "extract_fail"
        THEN [base EXCEPT !.blobs = blobs \ {pkg.sha},
                          !.error = Err("StoreCorruption", "extract " \o pkg.sha)]
        ELSE IF outcome = "materialize_fail"
        THEN [extracted EXCEPT !.error = Err("StoreCorruption", "materialize " \o n)]
        ELSE IF ~link
        THEN [kegged EXCEPT !.some = TRUE]
        ELSE IF lk.ok
        THEN [kegged EXCEPT !.bin = lk.bin, !.opt = lk.opt, !.some = TRUE,
                            !.linked = lk.linked]
        ELSE [kegged EXCEPT !.bin = lk.bin, !.opt = lk.opt,
                            !.error = Err("LinkConflict", lk.path)]

\* a loop that drops the error of a failed package
set_error_lost(old, e) == old

\* lines 235, 244, 266, 282: error = Some(e)
set_error(old, e) == e

\* lines 221-285: rx.recv() delivers the result of request i
ExecRecv(i, outcome, order) ==
    /\ phase = "recv"
    /\ i \in exec.pending
    /\ outcome \in {"http_error", "bad_body"} => ~has_blob(exec.to_install[i].sha)
    /\ outcome = "extract_fail" => exec.to_install[i].sha \notin store
    /\ order \in Orders(BinFiles(exec.to_install[i].name))
    /\ IF outcome = "ok" THEN UNCHANGED faults_left
       ELSE faults_left > 0 /\ faults_left' = faults_left - 1
    /\ LET r == process(exec.to_install[i], outcome, order, exec.link)
       IN  /\ store' = r.store
           /\ kegs' = r.kegs
           /\ bin' = r.bin
           /\ opt' = r.opt
           /\ blobs' = r.blobs
           /\ exec' = [exec EXCEPT
                  !.pending = @ \ {i},
                  !.arrival = Append(@, i),
                  !.completed[i] = IF r.some
                                   THEN [some |-> TRUE, linked |-> r.linked] ELSE @,
                  !.error = IF r.error # NoResult THEN set_error(@, r.error) ELSE @,
                  !.first_error = IF r.error # NoResult /\ @ = NoResult
                                  THEN r.error ELSE @]
    /\ UNCHANGED <<installed, store_refs, linked_files, hb_cellar, phase, ops_left,
                   last, mon, dlVars, extVars>>

\* a commit that records no linked file
record_linked_none(db, n, v, linked) == db

\* lines 297-304: the linked files of one package, in the transaction
RECURSIVE record_linked(_, _, _, _)
record_linked(db, n, v, linked) ==
    IF linked = <<>> THEN db
    ELSE record_linked(record_linked_file(db, n, v, Head(linked)), n, v, Tail(linked))

\* a commit loop that walks the results in the order they were received
commit_order_as_received(completed) ==
    SelectSeq(exec.arrival, LAMBDA i : completed[i].some)

\* line 293: completed.into_iter().flatten(), the indices of the recorded
\* packages in ascending order
commit_order(completed) ==
    SelectSeq([i \in 1..Len(completed) |-> i], LAMBDA i : completed[i].some)

\* lines 293-307: one transaction per completed package, in the order given
RECURSIVE commit_all(_, _, _, _)
commit_all(db, pkgs, completed, order) ==
    IF order = <<>> THEN db
    ELSE LET i == Head(order)
         IN  commit_all(
                 record_linked(
                     record_install(db, pkgs[i].name, pkgs[i].version, pkgs[i].sha),
                     pkgs[i].name, pkgs[i].version, completed[i].linked),
                 pkgs, completed, Tail(order))

\* line 221: rx.recv() returns None once every spawned download has sent its
\* result and dropped its sender
drained(pending) == pending = {}

\* lines 287-312: the channel is closed; return the error, or commit
ExecFinish ==
    /\ phase = "recv"
    /\ drained(exec.pending)
    /\ IF exec.error # NoResult
       THEN /\ last' = [NoLast EXCEPT !.op = "install", !.name = exec.plan[Len(exec.plan)].name,
                           !.plan = exec.plan, !.link = exec.link,
                           !.err = exec.error, !.first_err = exec.first_error]
            /\ mon' = NoMon
            /\ UNCHANGED <<installed, store_refs, linked_files>>
       ELSE LET order == commit_order(exec.completed)
                db == commit_all(Db, exec.to_install, exec.completed, order)
            IN  /\ installed' = db.installed
                /\ store_refs' = db.store_refs
                /\ linked_files' = db.linked_files
                /\ last' = [NoLast EXCEPT !.op = "install", !.ok = TRUE,
                               !.name = exec.plan[Len(exec.plan)].name,
                               !.plan = exec.plan, !.link = exec.link,
                               !.count = Len(exec.to_install),
                               !.skipped = exec.skipped,
                               !.arrival = exec.arrival,
                               !.committed = [j \in 1..Len(order) |->
                                                 exec.to_install[order[j]].name]]
                /\ UNCHANGED mon
    /\ phase' = "idle"
    /\ exec' = NoExec
    /\ UNCHANGED <<store, kegs, bin, opt, hb_cellar, ops_left, faults_left, blobs, dlVars, extVars>>

\* a lookup that takes every name for installed
get_installed_any(row) == TRUE

\* lines 324-326: get_installed(name) returned a row
get_installed_some(row) == row # NoRow

\* Installer::uninstall
Uninstall(n) ==
    /\ phase = "idle"
    /\ ops_left > 0
    /\ ops_left' = ops_left - 1
    /\ IF ~get_installed_some(installed[n])
       THEN /\ last' = [NoLast EXCEPT !.op = "uninstall", !.name = n,
                           !.err = Err("NotInstalled", n)]
            /\ mon' = NoMon
            /\ UNCHANGED <<installed, store_refs, linked_files, kegs, bin, opt>>
       ELSE LET v == installed[n].version
                db == record_uninstall(Db, n)
            IN  /\ opt' = unlink_opt(opt, kegs, n, v)
                /\ bin' = unlink_entries(bin, kegs, n, v)
                /\ installed' = db.installed
                /\ store_refs' = db.store_refs
                /\ linked_files' = db.linked_files
                /\ kegs' = kegs \ {<<n, v>>}
                /\ last' = [NoLast EXCEPT !.op = "uninstall", !.ok = TRUE, !.name = n]
                /\ mon' = IF /\ last.op = "install" /\ last.ok
                             /\ mon.triple.stage = 1 /\ mon.triple.name = n
                             /\ ~is_in_homebrew(n)
                          THEN [NoMon EXCEPT !.triple = [mon.triple EXCEPT !.stage = 2]]
                          ELSE NoMon
    /\ UNCHANGED <<store, hb_cellar, phase, exec, faults_left, blobs, dlVars, extVars>>

\* gc removing the entry of every key whatever its refcount
gc_remove_listed(S, unreferenced) == S \ DOMAIN store_refs

\* lines 350-353: store.remove_entry for each unreferenced key
gc_remove(S, unreferenced) == S \ unreferenced

\* Installer::gc
Gc ==
    /\ phase = "idle"
    /\ ops_left > 0
    /\ ops_left' = ops_left - 1
    /\ LET unreferenced == get_unreferenced_store_keys(store_refs)
       IN  /\ store' = gc_remove(store, unreferenced)
           /\ last' = [NoLast EXCEPT !.op = "gc", !.ok = TRUE, !.removed = unreferenced]
    /\ mon' = IF last.op = "uninstall" /\ last.ok /\ mon.triple.stage = 2
              THEN [NoMon EXCEPT !.triple = [mon.triple EXCEPT !.stage = 3],
                                 !.gc_store = store]
              ELSE [NoMon EXCEPT !.gc_store = store]
    /\ UNCHANGED <<installed, store_refs, linked_files, kegs, bin, opt, hb_cellar,
                   phase, exec, faults_left, blobs, dlVars, extVars>>

\* a fresh root and prefix
EmptyRoot ==
    /\ installed = [n \in Names |-> NoRow]
    /\ store_refs = [k \in {} |-> 0]
    /\ linked_files = [r \in LinkRows |-> 0]
    /\ store = {}
    /\ kegs = {}
    /\ blobs = {}
    /\ tmp = {}
    /\ content = <<>>
    /\ bin = [f \in Files |-> Empty]
    /\ opt = [n \in Names |-> Empty]
    /\ phase = "idle"
    /\ exec = NoExec
    /\ last = NoLast
    /\ mon = NoMon
    /\ inflight = [s \in {} |-> 0]
    /\ semaphore = Concurrency
    /\ pc = [t \in Tasks |-> "idle"]
    /\ req = [t \in Tasks |-> ShaPool[1]]
    /\ rx = [t \in Tasks |-> 0]
    /\ result = [t \in Tasks |-> NoResult]
    /\ chan = [t \in Tasks |-> NoMsg]
    /\ gets = [s \in DlShas |-> 0]
    /\ served = [s \in DlShas |-> 0]
    /\ ExtOff

\* a fresh root and prefix, no foreign Homebrew Cellar
FreshRoot == EmptyRoot /\ hb_cellar = {}

Next ==
    \/ \E plan \in Plans, link \in BOOLEAN : ExecBegin(plan, link)
    \/ \E i \in 1..MaxPlan, outcome \in Outcomes, order \in SeqsOver(Files, 2) :
          ExecRecv(i, outcome, order)
    \/ ExecFinish
    \/ \E n \in Names : Uninstall(n)
    \/ Gc

\* sequences of operations in an environment where no download, extraction
\* or materialization fails; link conflicts still fail an execute
Init == FreshRoot /\ ops_left = MaxOps /\ faults_left = 0

Spec == Init /\ [][Next]_vars

\* short runs in an environment that fails downloads, extractions and
\* materializations
ExecInit == FreshRoot /\ ops_left = ExecOps /\ faults_left = MaxFaults

ExecSpec == ExecInit /\ [][Next]_vars

\* longest sequence of install, uninstall and gc calls (HbSpec)
HbOps == 2

\* short runs on a machine whose foreign Homebrew Cellar holds directories
\* for some of the formulas, or is absent
HbInit ==
    /\ EmptyRoot
    /\ hb_cellar \in SUBSET Names
    /\ ops_left = HbOps
    /\ faults_left = 0

HbSpec == HbInit /\ [][Next]_vars

(***************************************************************************)
(* Linker::link_keg and Linker::unlink_keg called on a prefix that other   *)
(* installers have written to                                              *)
(***************************************************************************)
\* link_keg and unlink_keg calls in one run (LinkSpec)
LinkOps == 2

AllKegs == {<<p.name, p.version>> : p \in Pkgs}

\* what a path of <prefix>/bin may hold before the first call
BinOccupants(f) ==
    {Empty, RegularFile, Symlink(Foreign), Symlink(ForeignRel), Symlink(Gone)}
        \cup {Symlink(KegFile(k[1], k[2], f)) : k \in {x \in AllKegs : f \in BinFiles(x[1])}}

\* what a path of <prefix>/opt may hold before the first call
OptOccupants(n) ==
    {Empty, Symlink(Foreign)} \cup {Symlink(KegDir(k[1], k[2])) : k \in {x \in AllKegs : x[1] = n}}

\* Linker::unlink_keg, the paths pushed to `unlinked`, in read_dir order
unlinked_of(B, K, n, v, order) ==
    SelectSeq(order, LAMBDA f : same_canonical(B[f], KegFile(n, v, f), K))

LinkInit ==
    /\ kegs = AllKegs
    /\ bin \in {b \in [Files -> UNION {BinOccupants(f) : f \in Files}] :
                    \A f \in Files : b[f] \in BinOccupants(f)}
    /\ opt \in {o \in [Names -> UNION {OptOccupants(n) : n \in Names}] :
                    \A n \in Names : o[n] \in OptOccupants(n)}
    /\ ops_left = LinkOps
    /\ last = NoLast
    /\ installed = [n \in Names |-> NoRow]
    /\ store_refs = [k \in {} |-> 0]
    /\ linked_files = [r \in LinkRows |-> 0]
    /\ store = {}
    /\ blobs = {}
    /\ tmp = {}
    /\ content = <<>>
    /\ hb_cellar = {}
    /\ phase = "idle"
    /\ exec = NoExec
    /\ faults_left = 0
    /\ mon = NoMon
    /\ inflight = [s \in {} |-> 0]
    /\ semaphore = Concurrency
    /\ pc = [t \in Tasks |-> "idle"]
    /\ req = [t \in Tasks |-> ShaPool[1]]
    /\ rx = [t \in Tasks |-> 0]
    /\ result = [t \in Tasks |-> NoResult]
    /\ chan = [t \in Tasks |-> NoMsg]
    /\ gets = [s \in DlShas |-> 0]
    /\ served = [s \in DlShas |-> 0]
    /\ ExtOff

\* Linker::link_keg(keg_path) for the keg of n at version v
LinkKeg(n, v, order) ==
    /\ ops_left > 0
    /\ <<n, v>> \in kegs
    /\ order \in Orders(BinFiles(n))
    /\ ops_left' = ops_left - 1
    /\ LET r == link_keg(bin, opt, kegs, n, v, order)
       IN  /\ bin' = r.bin
           /\ opt' = r.opt
           /\ last' = [NoLast EXCEPT !.op = "link", !.ok = r.ok, !.name = n,
                           !.version = v, !.order = order,
                           !.found = [f \in BinFiles(n) |-> bin[f]],
                           !.again = /\ last.op = "link" /\ last.ok
                                     /\ last.name = n /\ last.version = v,
                           !.linked = IF r.ok THEN r.linked ELSE <<>>,
                           !.err = IF r.ok THEN NoResult
                                   ELSE Err("LinkConflict", r.path)]
    /\ UNCHANGED <<installed, store_refs, linked_files, store, kegs, hb_cellar,
                   phase, exec, faults_left, mon, blobs, dlVars, extVars>>

\* Linker::unlink_keg(keg_path) for the keg of n at version v
UnlinkKeg(n, v, order) ==
    /\ ops_left > 0
    /\ <<n, v>> \in kegs
    /\ order \in Orders(BinFiles(n))
    /\ ops_left' = ops_left - 1
    /\ opt' = unlink_opt(opt, kegs, n, v)
    /\ bin' = unlink_entries(bin, kegs, n, v)
    /\ last' = [NoLast EXCEPT !.op = "unlink", !.ok = TRUE, !.name = n,
                    !.version = v, !.order = order,
                    !.found = [f \in BinFiles(n) |-> bin[f]],
                    !.linked = unlinked_of(bin, kegs, n, v, order)]
    /\ UNCHANGED <<installed, store_refs, linked_files, store, kegs, hb_cellar,
                   phase, exec, faults_left, mon, blobs, dlVars, extVars>>

LinkNext ==
    \/ \E n \in Names, v \in Versions, order \in SeqsOver(Files, 2) : LinkKeg(n, v, order)
    \/ \E n \in Names, v \in Versions, order \in SeqsOver(Files, 2) : UnlinkKeg(n, v, order)

LinkSpec == LinkInit /\ [][LinkNext]_vars

(***************************************************************************)
(* Bearer tokens: Downloader::download_with_progress against a registry    *)
(* that answers the bottle GET with 401 challenges (checked under AuthSpec)*)
(***************************************************************************)
\* downloads one Downloader runs, one after another or interleaved
NDownloads == 2
Downloads == 1..NDownloads

\* Duration::from_secs(240)
TokenTtl == 240
\* the instants at which the clock is read
Instants == {0, 239, 240}

\* a bottle URL: the registry that serves it and the package
Urls == {[registry |-> "ghcr.io/v2/homebrew/core/", pkg |-> "p1"],
         [registry |-> "ghcr.io/v2/homebrew/core/", pkg |-> "p2"],
         [registry |-> "registry.example/v2/", pkg |-> "p1"]}
NoUrl == [registry |-> "", pkg |-> ""]

\* the scope of the challenge the registry sends for a URL, as the segments
\* between the slashes of "repository:<namespace>/<pkg>:pull"
challenge_scope(url) ==
    IF url.registry = "ghcr.io/v2/homebrew/core/"
    THEN <<"repository:homebrew", "core", url.pkg \o ":pull">>
    ELSE <<"repository:example", url.pkg \o ":pull">>

\* the WWW-Authenticate header of a 401 with a challenge
challenge(url) ==
    [realm |-> "https://ghcr.io/token", service |-> "ghcr.io", scope |-> challenge_scope(url)]

\* parse_www_authenticate: the scope of the header
parse_scope(header) == header.scope

NoPrefix == <<>>

\* extract_scope_prefix: "repository:homebrew/core/" for a GHCR URL, else None
extract_scope_prefix(url) ==
    IF url.registry = "ghcr.io/v2/homebrew/core/"
    THEN <<"repository:homebrew", "core">>
    ELSE NoPrefix

\* scope.starts_with(&scope_prefix), the prefix ending in a slash
starts_with(scope, prefix) ==
    /\ Len(scope) > Len(prefix)
    /\ SubSeq(scope, 1, Len(prefix)) = prefix

\* a token: the scope it was issued for and its number among the tokens issued
NoToken == [scope |-> <<>>, n |-> 0]

\* an expiry test that passes every cached token
unexpired_always(cached, t) == TRUE

\* cached.expires_at > now
unexpired(cached, t) == cached.expires_at > t

\* get_cached_token_for_url: the tokens the iteration over the cache may return
cached_tokens_for_url(cache, url, t) ==
    IF extract_scope_prefix(url) = NoPrefix THEN {}
    ELSE {cache[sc].token : sc \in {c \in DOMAIN cache :
              starts_with(c, extract_scope_prefix(url)) /\ unexpired(cache[c], t)}}

\* a status test that takes no response for a 401
is_unauthorized_never(status) == FALSE

\* response.status() == StatusCode::UNAUTHORIZED; "401_bare" is a 401 without
\* a WWW-Authenticate header
is_unauthorized(status) == status \in {"401", "401_bare"}

BottleStatuses == {"200", "401", "401_bare", "500"}
status_code(status) == IF status = "401_bare" THEN "401" ELSE status

NoDownload == [pc |-> "idle", url |-> NoUrl, sent |-> <<>>, seen |-> <<>>,
               treqs |-> 0, result |-> NoResult]

AuthInit ==
    /\ token_cache = <<>>
    /\ now = 0
    /\ adl = [d \in Downloads |-> NoDownload]
    /\ issued = <<>>
    /\ DlOff /\ InstOff /\ RaceOff /\ PlanOff /\ ApiOff /\ TailOff

\* one GET of the bottle URL: the token of its Authorization header, and
\* whether TokenTtl seconds have passed since that token was cached
get(tok, t) ==
    [token |-> tok,
     stale |-> tok # NoToken /\ t - issued[tok.n].at >= TokenTtl]

\* download_with_progress lines 87-97: attach a cached token when one matches
\* and send the GET. Downloads are numbered in the order they begin.
AuthSend(d, url, tok) ==
    /\ adl[d].pc = "idle"
    /\ \A e \in Downloads : e < d => adl[e].pc # "idle"
    /\ LET found == cached_tokens_for_url(token_cache, url, now) IN
           IF found = {} THEN tok = NoToken ELSE tok \in found
    /\ adl' = [adl EXCEPT ![d] = [NoDownload EXCEPT !.pc = "get1", !.url = url,
                                                  !.sent = <<get(tok, now)>>]]
    /\ UNCHANGED <<token_cache, now, issued, authOthers>>

\* the end of download_with_progress (lines 105-111) for a response that is
\* passed on: a status that is no success is NetworkFailure, a success goes to
\* download_response_with_progress
pass_on(status) ==
    IF status = "200" THEN Ok("blob")
    ELSE Err("NetworkFailure", "HTTP " \o status_code(status))

\* download_with_progress lines 99-111 and handle_auth_challenge up to its
\* first request: a 401 with a challenge is answered from the token cache by
\* the retry, or by a request to the token endpoint
AuthRespond1(d, status) ==
    /\ adl[d].pc = "get1"
    /\ LET a == [adl[d] EXCEPT !.seen = Append(@, status)]
           scope == parse_scope(challenge(a.url))
       IN  IF ~is_unauthorized(status)
           THEN adl' = [adl EXCEPT ![d] = [a EXCEPT !.pc = "done", !.result = pass_on(status)]]
           ELSE IF status = "401_bare"
           THEN adl' = [adl EXCEPT ![d] = [a EXCEPT !.pc = "done",
                            !.result = Err("NetworkFailure",
                                "server returned 401 without WWW-Authenticate header (may be rate limited)")]]
           ELSE IF scope \in DOMAIN token_cache /\ unexpired(token_cache[scope], now)
           THEN adl' = [adl EXCEPT ![d] = [a EXCEPT !.pc = "get2",
                            !.sent = Append(@, get(token_cache[scope].token, now))]]
           ELSE adl' = [adl EXCEPT ![d] = [a EXCEPT !.pc = "token", !.treqs = @ + 1]]
    /\ UNCHANGED <<token_cache, now, issued, authOthers>>

\* fetch_bearer_token lines 205-227 and handle_auth_challenge lines 151-162:
\* the token endpoint answers; its token is cached under the scope for
\* TokenTtl seconds and the GET is sent again with it
AuthToken(d, served_ok) ==
    /\ adl[d].pc = "token"
    /\ LET scope == parse_scope(challenge(adl[d].url))
           tok == [scope |-> scope, n |-> Len(issued) + 1]
       IN  IF served_ok
           THEN /\ issued' = Append(issued, [scope |-> scope, at |-> now])
                /\ token_cache' = [sc \in DOMAIN token_cache \cup {scope} |->
                                      IF sc = scope
                                      THEN [token |-> tok, expires_at |-> now + TokenTtl]
                                      ELSE token_cache[sc]]
                /\ adl' = [adl EXCEPT ![d].pc = "get2",
                                      ![d].sent = Append(@, [token |-> tok, stale |-> FALSE])]
           ELSE /\ adl' = [adl EXCEPT ![d].pc = "done",
                               ![d].result = Err("NetworkFailure",
                                                 "token request returned HTTP 500")]
                /\ UNCHANGED <<token_cache, issued>>
    /\ UNCHANGED <<now, authOthers>>

\* handle_auth_challenge lines 164-171 and download_with_progress lines
\* 105-111: the answer to the retry
AuthRespond2(d, status) ==
    /\ adl[d].pc = "get2"
    /\ LET a == [adl[d] EXCEPT !.seen = Append(@, status), !.pc = "done"] IN
           IF is_unauthorized(status)
           THEN adl' = [adl EXCEPT ![d] = [a EXCEPT !.result = Err("NetworkFailure",
                            "authentication failed: token was rejected by server")]]
           ELSE adl' = [adl EXCEPT ![d] = [a EXCEPT !.result = pass_on(status)]]
    /\ UNCHANGED <<token_cache, now, issued, authOthers>>

\* time passes
AuthTick(t) ==
    /\ t > now
    /\ now' = t
    /\ UNCHANGED <<token_cache, adl, issued, authOthers>>

AuthNext ==
    \/ \E d \in Downloads, url \in Urls :
          \E tok \in {NoToken} \cup {token_cache[sc].token : sc \in DOMAIN token_cache} :
              AuthSend(d, url, tok)
    \/ \E d \in Downloads, status \in BottleStatuses : AuthRespond1(d, status)
    \/ \E d \in Downloads, served_ok \in BOOLEAN : AuthToken(d, served_ok)
    \/ \E d \in Downloads, status \in BottleStatuses : AuthRespond2(d, status)
    \/ \E t \in Instants : AuthTick(t)

AuthSpec == AuthInit /\ [][AuthNext]_vars

(***************************************************************************)
(* BlobWriters racing for one sha256 in one process (zb_io/src/blob.rs),   *)
(* with the files of cache/tmp and cache/blobs as directory entries naming *)
(* inodes (checked under RaceSpec)                                         *)
(***************************************************************************)
\* BlobWriters the process creates for the sha256
NWriters == 2
\* worker threads of the runtime
NThreads == 2
\* chunks a writer may write
NChunks == 2
Writers == 1..NWriters
Threads == 1..NThreads

RaceSha == ShaPool[1]
NoInode == 0
\* a byte range no writer wrote: the hole left by a write past the end
Hole == <<0, 0>>

\* BlobCache::start_write lines 46-50: the temp path is made of the sha256, the
\* process id and the id of the thread that runs the caller
tmp_path(sha, pid, thread_id) == <<sha, pid, thread_id, "tar.gz.part">>
path_of(w) == tmp_path(RaceSha, "pid", bw[w].thread)

NoWriter == [pc |-> "new", thread |-> 0, file |-> NoInode, offset |-> 0,
             committed |-> FALSE, result |-> NoResult]

RaceInit ==
    /\ bw = [w \in Writers |-> NoWriter]
    /\ tmp_dir = <<>>
    /\ final_blob = NoInode
    /\ inodes = <<>>
    /\ DlOff /\ InstOff /\ AuthOff /\ PlanOff /\ ApiOff /\ TailOff

\* fs::remove_file(path), its error ignored
remove_file(dir, path) == [p \in DOMAIN dir \ {path} |-> dir[p]]

\* a Drop that leaves the temp file where it is
drop_keeps(dir, path, committed) == dir

\* impl Drop for BlobWriter on the temp directory
drop(dir, path, committed) ==
    IF ~committed /\ path \in DOMAIN dir THEN remove_file(dir, path) ELSE dir

\* File::write at the handle's offset: bytes past the end leave a hole
write_at(bytes, offset, chunk) ==
    [i \in 1..(IF Len(bytes) > offset THEN Len(bytes) ELSE offset + 1) |->
        IF i = offset + 1 THEN chunk
        ELSE IF i <= Len(bytes) THEN bytes[i] ELSE Hole]

\* start_write, write and commit have no await: tasks of one thread run them
\* one at a time, threads run them side by side. A writer may take a step on
\* thread th unless another writer is inside commit on that thread.
runnable(w, th) ==
    \A v \in Writers \ {w} : bw[v].pc = "renaming" => bw[v].thread # th

\* BlobCache::start_write on the thread th: File::create makes the file, or
\* empties the file the path names. Writers and threads are numbered in the
\* order they first appear.
RaceStart(w, th) ==
    /\ bw[w].pc = "new"
    /\ \A v \in Writers : v < w => bw[v].pc # "new"
    /\ \A t \in Threads : t < th => \E v \in Writers : bw[v].thread = t
    /\ runnable(w, th)
    /\ LET path == tmp_path(RaceSha, "pid", th)
           file == IF path \in DOMAIN tmp_dir THEN tmp_dir[path] ELSE Len(inodes) + 1
       IN  /\ inodes' = IF path \in DOMAIN tmp_dir
                        THEN [inodes EXCEPT ![file] = <<>>]
                        ELSE Append(inodes, <<>>)
           /\ tmp_dir' = [p \in DOMAIN tmp_dir \cup {path} |->
                              IF p = path THEN file ELSE tmp_dir[p]]
           /\ bw' = [bw EXCEPT ![w] = [NoWriter EXCEPT !.pc = "open", !.thread = th,
                                                      !.file = file]]
    /\ UNCHANGED <<final_blob, raceOthers>>

\* impl Write for BlobWriter: one chunk goes to the file of the handle
RaceWrite(w) ==
    /\ bw[w].pc = "open"
    /\ bw[w].offset < NChunks
    /\ runnable(w, bw[w].thread)
    /\ inodes' = [inodes EXCEPT ![bw[w].file] =
                     write_at(@, bw[w].offset, <<w, bw[w].offset + 1>>)]
    /\ bw' = [bw EXCEPT ![w].offset = @ + 1]
    /\ UNCHANGED <<tmp_dir, final_blob, raceOthers>>

\* BlobWriter::commit lines 72-82: flush, and when the final path exists remove
\* the temp path and return success
RaceCommit(w) ==
    /\ bw[w].pc = "open"
    /\ runnable(w, bw[w].thread)
    /\ IF final_blob # NoInode
       THEN /\ tmp_dir' = remove_file(tmp_dir, path_of(w))
            /\ bw' = [bw EXCEPT ![w].pc = "closed", ![w].committed = TRUE,
                                ![w].result = Ok(blob_path(RaceSha))]
       ELSE /\ bw' = [bw EXCEPT ![w].pc = "renaming"]
            /\ UNCHANGED tmp_dir
    /\ UNCHANGED <<final_blob, inodes, raceOthers>>

\* BlobWriter::commit lines 86-100: fs::rename puts the temp file at the final
\* path, in place of what is there; when the temp path is gone the rename
\* fails, which is success if the final path exists and NetworkFailure if not,
\* and the writer is dropped
RaceRename(w) ==
    /\ bw[w].pc = "renaming"
    /\ IF path_of(w) \in DOMAIN tmp_dir
       THEN /\ final_blob' = tmp_dir[path_of(w)]
            /\ tmp_dir' = remove_file(tmp_dir, path_of(w))
            /\ bw' = [bw EXCEPT ![w].pc = "closed", ![w].committed = TRUE,
                                ![w].result = Ok(blob_path(RaceSha))]
       ELSE IF final_blob # NoInode
       THEN /\ tmp_dir' = remove_file(tmp_dir, path_of(w))
            /\ bw' = [bw EXCEPT ![w].pc = "closed", ![w].committed = TRUE,
                                ![w].result = Ok(blob_path(RaceSha))]
            /\ UNCHANGED final_blob
       ELSE /\ tmp_dir' = drop(tmp_dir, path_of(w), FALSE)
            /\ bw' = [bw EXCEPT ![w].pc = "closed",
                                ![w].result = Err("NetworkFailure", "failed to rename blob")]
            /\ UNCHANGED final_blob
    /\ UNCHANGED <<inodes, raceOthers>>

\* the writer goes out of scope without commit
RaceDrop(w) ==
    /\ bw[w].pc = "open"
    /\ runnable(w, bw[w].thread)
    /\ tmp_dir' = drop(tmp_dir, path_of(w), bw[w].committed)
    /\ bw' = [bw EXCEPT ![w].pc = "closed"]
    /\ UNCHANGED <<final_blob, inodes, raceOthers>>

RaceNext ==
    \/ \E w \in Writers, th \in Threads : RaceStart(w, th)
    \/ \E w \in Writers : RaceWrite(w)
    \/ \E w \in Writers : RaceCommit(w)
    \/ \E w \in Writers : RaceRename(w)
    \/ \E w \in Writers : RaceDrop(w)

RaceSpec == RaceInit /\ [][RaceNext]_vars

(***************************************************************************)
(* Installer::plan (zb_io/src/install.rs 78-152): the breadth-first fetch  *)
(* of the formulas and the ordering of the closure                         *)
(***************************************************************************)
\* number of formula names the API knows about
NFormulas == 3

FormulaPool == <<"root", "mid1", "mid2", "leaf1", "leaf2">>
Formulae == {FormulaPool[i] : i \in 1..NFormulas}
\* the name plan is called with
PlanRoot == FormulaPool[1]

\* Formula.dependencies: a list of names, in which a name may repeat
DepLists ==
    {<<>>} \cup {<<n>> : n \in Formulae} \cup {<<n, m>> : n \in Formulae, m \in Formulae}

\* what the API serves for a name: a formula with its dependency list, or 404
Found(deps) == [status |-> "200", dependencies |-> deps]
Missing == [status |-> "404", dependencies |-> <<>>]
Served == {Found(deps) : deps \in DepLists} \cup {Missing}

elems(seq) == {seq[i] : i \in 1..Len(seq)}

\* the names a run of plan can come across: those reachable from the root
\* through the dependency lists the API serves
RECURSIVE reach(_, _)
reach(reg, S) ==
    LET T == S \cup UNION {elems(reg[n].dependencies) : n \in S}
    IN  IF T = S THEN S ELSE reach(reg, T)

\* the names of reg in the order in which a walk from the names of seq comes
\* across them, position i onwards
RECURSIVE discovery(_, _, _)
discovery(reg, seq, i) ==
    IF i > Len(seq) THEN seq
    ELSE LET deps == reg[seq[i]].dependencies
             RECURSIVE add(_, _)
             add(acc, ds) ==
                 IF ds = <<>> THEN acc
                 ELSE add(IF Head(ds) \in elems(acc) THEN acc ELSE Append(acc, Head(ds)),
                          Tail(ds))
         IN  discovery(reg, add(seq, deps), i + 1)

NoPlan == [ok |-> FALSE, formulas |-> <<>>, kind |-> "none", name |-> "", cycle |-> <<>>]
PlanOk(formulas) == [NoPlan EXCEPT !.ok = TRUE, !.formulas = formulas, !.kind = ""]
MissingFormula(n) == [NoPlan EXCEPT !.kind = "MissingFormula", !.name = n]
DependencyCycle(path) == [NoPlan EXCEPT !.kind = "DependencyCycle", !.cycle = path]
UnsupportedBottle(n) == [NoPlan EXCEPT !.kind = "UnsupportedBottle", !.name = n]

\* lines 109-111: the locals of fetch_all_formulas before the loop. What the
\* API serves for a name no run can reach makes no difference and is left
\* empty; the graphs are drawn up to a renaming of the names other than the
\* root, the names taken in the order in which a walk from the root comes
\* across them.
PlanInit ==
    /\ registry \in [Formulae -> Served]
    /\ \A n \in Formulae \ reach(registry, {PlanRoot}) : registry[n] = Found(<<>>)
    /\ LET seen == discovery(registry, <<PlanRoot>>, 1)
       IN  \A i \in 1..Len(seen) : seen[i] = FormulaPool[i]
    /\ ppc = "fetch"
    /\ fa = [formulas |-> <<>>, fetched |-> {}, to_fetch |-> <<PlanRoot>>]
    /\ api_gets = [n \in Formulae |-> 0]
    /\ planned = NoPlan
    /\ DlOff /\ InstOff /\ AuthOff /\ RaceOff /\ ApiOff /\ TailOff

\* a filter that lets every queued name through
not_fetched_any(fetched, n) == TRUE

\* lines 116, 139: !fetched.contains(n)
not_fetched(fetched, n) == n \notin fetched

\* lines 115-118: to_fetch.drain(..).filter(|n| !fetched.contains(n))
batch_of(to_fetch, fetched) == SelectSeq(to_fetch, LAMBDA n : not_fetched(fetched, n))

\* lines 138-142: queue the dependencies of one formula for the next batch
RECURSIVE queue_deps(_, _, _)
queue_deps(to_fetch, fetched, deps) ==
    IF deps = <<>> THEN to_fetch
    ELSE LET dep == Head(deps)
         IN  queue_deps(IF not_fetched(fetched, dep) /\ dep \notin elems(to_fetch)
                        THEN Append(to_fetch, dep) ELSE to_fetch,
                        fetched, Tail(deps))

\* lines 134-145: the results of the batch from index i on, in the order of
\* the batch; the first Err ends fetch_all_formulas
RECURSIVE process_results(_, _, _, _)
process_results(reg, batch, i, st) ==
    IF i > Len(batch) THEN st
    ELSE IF reg[batch[i]] = Missing
    THEN [st EXCEPT !.err = MissingFormula(batch[i])]
    ELSE process_results(reg, batch, i + 1,
             [st EXCEPT !.to_fetch = queue_deps(@, st.fetched, reg[batch[i]].dependencies),
                        !.formulas = [n \in DOMAIN @ \cup {batch[i]} |->
                                         IF n = batch[i] THEN reg[n].dependencies
                                         ELSE @[n]]])

\* lines 113-146: one iteration of the while loop: drain the queue, mark the
\* batch, send its requests together and process the answers
PlanRound ==
    /\ ppc = "fetch"
    /\ fa.to_fetch # <<>>
    /\ LET batch == batch_of(fa.to_fetch, fa.fetched)
           marked == fa.fetched \cup elems(batch)
           st == process_results(registry, batch, 1,
                     [formulas |-> fa.formulas, fetched |-> marked,
                      to_fetch |-> <<>>, err |-> NoPlan])
       IN  IF batch = <<>>
           THEN /\ ppc' = "resolve"
                /\ fa' = [fa EXCEPT !.to_fetch = <<>>]
                /\ UNCHANGED <<api_gets, planned>>
           ELSE /\ api_gets' = [n \in Formulae |->
                        api_gets[n] + Cardinality({i \in 1..Len(batch) : batch[i] = n})]
                /\ fa' = [formulas |-> st.formulas, fetched |-> st.fetched,
                          to_fetch |-> st.to_fetch]
                /\ IF st.err # NoPlan
                   THEN ppc' = "done" /\ planned' = st.err
                   ELSE UNCHANGED <<ppc, planned>>
    /\ UNCHANGED <<registry, planOthers>>

\* line 113: the queue is empty, the loop ends
PlanFetched ==
    /\ ppc = "fetch"
    /\ fa.to_fetch = <<>>
    /\ ppc' = "resolve"
    /\ UNCHANGED <<registry, fa, api_gets, planned, planOthers>>

\* zb_core::resolve_closure: depth-first from the root, each formula after
\* the formulas it depends on; a name met again on the current path is a
\* cycle, a name without a formula is missing
RECURSIVE visit(_, _, _, _), visit_all(_, _, _, _)
visit(formulas, n, path, st) ==
    IF st.err # NoPlan \/ n \in elems(st.order) THEN st
    ELSE IF n \in elems(path) THEN [st EXCEPT !.err = DependencyCycle(Append(path, n))]
    ELSE IF n \notin DOMAIN formulas THEN [st EXCEPT !.err = MissingFormula(n)]
    ELSE LET below == visit_all(formulas, formulas[n], Append(path, n), st)
         IN  IF below.err # NoPlan THEN below
             ELSE [below EXCEPT !.order = Append(@, n)]
visit_all(formulas, deps, path, st) ==
    IF deps = <<>> THEN st
    ELSE visit_all(formulas, Tail(deps), path, visit(formulas, Head(deps), path, st))

resolve_closure(name, formulas) ==
    visit(formulas, name, <<>>, [order |-> <<>>, err |-> NoPlan])

\* a list built from the last name of the order to the first
all_formulas_reversed(ordered, formulas) ==
    [i \in 1..Len(ordered) |->
        [name |-> ordered[Len(ordered) + 1 - i],
         dependencies |-> formulas[ordered[Len(ordered) + 1 - i]]]]

\* lines 86-89: the formulas in the order resolve_closure gave
all_formulas(ordered, formulas) ==
    [i \in 1..Len(ordered) |-> [name |-> ordered[i], dependencies |-> formulas[ordered[i]]]]

\* lines 92-96: select_bottle for each formula in order; the first formula
\* without a bottle for this platform ends plan
select_bottles(formulas, unsupported) ==
    LET bad == {i \in 1..Len(formulas) : formulas[i].name \in unsupported}
    IN  IF bad = {} THEN PlanOk(formulas)
        ELSE UnsupportedBottle(formulas[CHOOSE i \in bad : \A j \in bad : i <= j].name)

\* lines 82-101: order the closure, pick the bottles, return the plan
PlanResolve(unsupported) ==
    /\ ppc = "resolve"
    /\ LET r == resolve_closure(PlanRoot, fa.formulas)
       IN  planned' = IF r.err # NoPlan THEN r.err
                      ELSE select_bottles(all_formulas(r.order, fa.formulas), unsupported)
    /\ ppc' = "done"
    /\ UNCHANGED <<registry, fa, api_gets, planOthers>>

PlanNext ==
    \/ PlanRound
    \/ PlanFetched
    \/ \E unsupported \in SUBSET Formulae : PlanResolve(unsupported)

PlanSpec == PlanInit /\ [][PlanNext]_vars

\* plan is one async fn that nothing but its own requests can suspend: the
\* executor runs it to its end
PlanFairSpec == PlanSpec /\ WF_vars(PlanNext)

(***************************************************************************)
(* ApiClient::get_formula with its conditional-request cache               *)
(* (zb_io/src/api.rs 35-107)                                               *)
(***************************************************************************)
\* number of formula names get_formula is called with
NApiNames == 2
\* get_formula calls in one run
ApiCalls == 3

ApiNames == {FormulaPool[i] : i \in 1..NApiNames}

\* line 36: format!("{}/{}.json", self.base_url, name)
BaseUrl == "https://formulae.brew.sh/api/formula"
formula_url(name) == BaseUrl \o "/" \o name \o ".json"
ApiUrls == {formula_url(n) : n \in ApiNames}

\* Option<String>::None for a header the response did not carry
NoHeader == "none"
Etags == {NoHeader, "e1"}
LastModifieds == {NoHeader, "m1"}

\* the JSON text of a formula, and the response bodies of the model: the
\* formula asked for in one of two versions, or text that is not JSON
formula_json(name, version) == "{name:" \o name \o ",stable:" \o version \o "}"
ApiVersions == {"1", "2"}
NotJson == "<html>"
BodiesFor(name) == {formula_json(name, v) : v \in ApiVersions} \cup {NotJson}

\* the status codes the API answers with, and 0 for a request that got no
\* response
NoResponse == 0
ApiStatuses == {200, 204, 304, 404, 500}

NoEntry == [some |-> FALSE, etag |-> NoHeader, last_modified |-> NoHeader, body |-> ""]
CacheEntry(etag, last_modified, body) ==
    [some |-> TRUE, etag |-> etag, last_modified |-> last_modified, body |-> body]

NoApiResult == [status |-> NoResponse, ok |-> FALSE, formula |-> <<>>, kind |-> "none",
                message |-> ""]
ApiOk(status, formula) ==
    [NoApiResult EXCEPT !.status = status, !.ok = TRUE, !.formula = formula, !.kind = ""]
ApiErr(status, kind, message) ==
    [NoApiResult EXCEPT !.status = status, !.kind = kind, !.message = message]

\* serde_json::from_str::<Formula>: the formula a JSON text spells, if any
parses(body) == \E n \in ApiNames, v \in ApiVersions : body = formula_json(n, v)
from_str(body) ==
    LET f == CHOOSE f \in ApiNames \X ApiVersions : body = formula_json(f[1], f[2])
    IN  [name |-> f[1], stable |-> f[2]]

\* lines 10-33: new() has no cache, with_cache(cache) has an empty one
ApiInit ==
    /\ api_cache \in {[enabled |-> e, entries |-> [u \in ApiUrls |-> NoEntry]] :
                         e \in BOOLEAN}
    /\ api_pc = "idle"
    /\ api_req = [name |-> "", url |-> "", cached_entry |-> NoEntry, headers |-> {}]
    /\ api_result = NoApiResult
    /\ api_calls = ApiCalls
    /\ DlOff /\ InstOff /\ AuthOff /\ RaceOff /\ PlanOff /\ TailOff

\* line 38: self.cache.as_ref().and_then(|c| c.get(&url))
cache_get(cache, url) == IF cache.enabled THEN cache.entries[url] ELSE NoEntry

\* lines 89-96: cache.put(&url, &entry) when the client has a cache
cache_put(cache, url, entry) ==
    IF cache.enabled THEN [cache EXCEPT !.entries[url] = entry] ELSE cache

\* lines 42-49: the validators of the cached entry become request headers
conditional_headers(entry) ==
    IF ~entry.some THEN {}
    ELSE (IF entry.etag # NoHeader THEN {<<"If-None-Match", entry.etag>>} ELSE {})
         \cup (IF entry.last_modified # NoHeader
               THEN {<<"If-Modified-Since", entry.last_modified>>} ELSE {})

\* lines 36-51: read the cache, build the request and send it
ApiSend(name) ==
    /\ api_pc = "idle"
    /\ api_calls > 0
    /\ api_calls' = api_calls - 1
    /\ LET url == formula_url(name)
           entry == cache_get(api_cache, url)
       IN  api_req' = [name |-> name, url |-> url, cached_entry |-> entry,
                       headers |-> conditional_headers(entry)]
    /\ api_pc' = "sent"
    /\ UNCHANGED <<api_cache, api_result, apiOthers>>

\* a client that takes every status for a success
is_success_always(status) == TRUE

\* StatusCode::is_success
is_success(status) == status \in 200..299

\* lines 55-106: what get_formula makes of the response
handle_response(cache, r, status, etag, last_modified, body, body_read) ==
    IF status = 304 /\ r.cached_entry.some
    THEN [cache |-> cache,
          result |-> IF parses(r.cached_entry.body)
                     THEN ApiOk(status, from_str(r.cached_entry.body))
                     ELSE ApiErr(status, "NetworkFailure",
                                 "failed to parse cached formula JSON")]
    ELSE IF status = 404
    THEN [cache |-> cache, result |-> ApiErr(status, "MissingFormula", r.name)]
    ELSE IF ~is_success(status)
    THEN [cache |-> cache, result |-> ApiErr(status, "NetworkFailure", "HTTP")]
    ELSE IF ~body_read
    THEN [cache |-> cache,
          result |-> ApiErr(status, "NetworkFailure", "failed to read response body")]
    ELSE [cache |-> cache_put(cache, r.url, CacheEntry(etag, last_modified, body)),
          result |-> IF parses(body) THEN ApiOk(status, from_str(body))
                     ELSE ApiErr(status, "NetworkFailure", "failed to parse formula JSON")]

\* lines 51-53: request.send() fails
ApiSendError ==
    /\ api_pc = "sent"
    /\ api_result' = ApiErr(NoResponse, "NetworkFailure", "send")
    /\ api_pc' = "idle"
    /\ UNCHANGED <<api_cache, api_req, api_calls, apiOthers>>

\* lines 55-106: a response without a body worth reading
ApiRespond(status) ==
    /\ api_pc = "sent"
    /\ status \notin {200, 204}
    /\ LET h == handle_response(api_cache, api_req, status, NoHeader, NoHeader, "", TRUE)
       IN  api_cache' = h.cache /\ api_result' = h.result
    /\ api_pc' = "idle"
    /\ UNCHANGED <<api_req, api_calls, apiOthers>>

\* lines 55-106: a response with headers and a body
ApiRespondBody(status, etag, last_modified, body, body_read) ==
    /\ api_pc = "sent"
    /\ status \in {200, 204}
    /\ LET h == handle_response(api_cache, api_req, status, etag, last_modified, body,
                                body_read)
       IN  api_cache' = h.cache /\ api_result' = h.result
    /\ api_pc' = "idle"
    /\ UNCHANGED <<api_req, api_calls, apiOthers>>

ApiNext ==
    \/ \E name \in ApiNames : ApiSend(name)
    \/ ApiSendError
    \/ \E status \in ApiStatuses : ApiRespond(status)
    \/ \E status \in ApiStatuses, etag \in Etags, last_modified \in LastModifieds,
          body \in BodiesFor(api_req.name), body_read \in BOOLEAN :
          ApiRespondBody(status, etag, last_modified, body, body_read)

ApiSpec == ApiInit /\ [][ApiNext]_vars

(***************************************************************************)
(* StreamSpec: ParallelDownloader::download_streaming and the receive loop *)
(* of Installer::execute_with_progress.  download_with_dedup is taken by   *)
(* its outcome here: DlSpec holds its steps, and every caller of it        *)
(* returns.                                                                *)
(***************************************************************************)
\* most requests one call of download_streaming is given
NRequests == 3

\* the DownloadRequests a call may hold; one may occur twice in a call
StreamRequests == {[name |-> "a", sha256 |-> "s1"], [name |-> "b", sha256 |-> "s2"]}
\* the errors download_with_dedup returns
StreamErrors == {"NetworkFailure", "ChecksumMismatch"}

RequestLists == UNION {[1..n -> StreamRequests] : n \in 0..NRequests}

StreamInit ==
    /\ DlOff /\ InstOff /\ AuthOff /\ RaceOff /\ PlanOff /\ ApiOff /\ PatchOff
    /\ blobs = {}
    /\ \E rs \in RequestLists :
           stream = [requests |-> rs, pc |-> "call", capacity |-> 0, senders |-> 0,
                     running |-> {}, queue |-> <<>>, got |-> <<>>]

\* mpsc::channel(requests.len().max(1))
channel_capacity(n) == IF n >= 1 THEN n ELSE 1

\* Senders alive when download_streaming returns: one clone of tx moved into
\* each spawned task; the tx of the function body is dropped at its end.
senders_at_return(n) == n

\* download_streaming: create the channel, spawn one task per request with its
\* index, return the receiver.  The indices are those of enumerate(), counted
\* from 1 here.
DownloadStreaming ==
    /\ stream.pc = "call"
    /\ LET n == Len(stream.requests)
       IN stream' = [stream EXCEPT !.pc = "loop",
                                   !.capacity = channel_capacity(n),
                                   !.senders = senders_at_return(n),
                                   !.running = 1..n]
    /\ UNCHANGED streamOthers

\* result.map(|blob_path| DownloadResult { name, sha256, blob_path, index }):
\* an Ok carries the request's name, sha256 and index; an Err is passed on as
\* it is and carries the error only.
stream_item(rs, index, r) ==
    IF r = "Ok"
    THEN [ok |-> TRUE, name |-> rs[index].name, sha256 |-> rs[index].sha256,
          index |-> index]
    ELSE [ok |-> FALSE, error |-> r]

\* A spawned task: download_with_dedup returns r, the task sends its item
\* and ends, which drops its Sender.  send waits while the channel is full.
StreamTask(index, r) ==
    /\ index \in stream.running
    /\ Len(stream.queue) < stream.capacity
    /\ stream' = [stream EXCEPT
                     !.queue = Append(@, stream_item(stream.requests, index, r)),
                     !.running = @ \ {index},
                     !.senders = @ - 1]
    /\ UNCHANGED streamOthers

\* while let Some(result) = rx.recv().await: the loop takes the oldest item
StreamRecv ==
    /\ stream.pc = "loop"
    /\ stream.queue # <<>>
    /\ stream' = [stream EXCEPT !.got = Append(@, Head(stream.queue)),
                                !.queue = Tail(@)]
    /\ UNCHANGED streamOthers

\* recv returns None once the channel is empty and every Sender is dropped
StreamClosed ==
    /\ stream.pc = "loop"
    /\ stream.queue = <<>>
    /\ stream.senders = 0
    /\ stream' = [stream EXCEPT !.pc = "end"]
    /\ UNCHANGED streamOthers

StreamNext ==
    \/ DownloadStreaming
    \/ \E index \in 1..NRequests, r \in {"Ok"} \cup StreamErrors : StreamTask(index, r)
    \/ StreamRecv
    \/ StreamClosed

StreamSpec == StreamInit /\ [][StreamNext]_vars

\* The runtime keeps polling the spawned tasks and the installer's future,
\* and download_with_dedup returns to every caller.
StreamFairSpec == StreamSpec /\ WF_vars(StreamNext)

(***************************************************************************)
(* PatchSpec: patch_text_file_strings and patch_macho_binary_strings       *)
(* called on one file, one call after another.                             *)
(*                                                                         *)
(* File contents are sequences of byte strings ("/", a NUL, a name without *)
(* a slash), laid end to end with nothing between them; byte_len counts    *)
(* their bytes.  A legacy prefix begins with "/" and the names of the      *)
(* vocabulary do not begin with one another, so a match of a prefix in the *)
(* bytes is a match in the sequence.                                       *)
(***************************************************************************)
\* most chunks a file's contents are put together from
MaxChunks == 3
\* most calls of the two patch functions on the file in one run
MaxPasses == 2

NUL == "NUL"

HOMEBREW_PREFIXES ==
    << <<"/", "opt", "/", "homebrew">>,
       <<"/", "usr", "/", "local", "/", "Homebrew">>,
       <<"/", "usr", "/", "local">>,
       <<"/", "home", "/", "linuxbrew", "/", ".linuxbrew">> >>

\* prefix_str: the parent of the cellar directory; zerobrew's own default,
\* a short one, a legacy prefix itself, and a directory below a legacy prefix
NewPrefixes ==
    { <<"/", "opt", "/", "zerobrew", "/", "prefix">>,
      <<"/", "zb">>,
      <<"/", "usr", "/", "local">>,
      <<"/", "usr", "/", "local", "/", "zb">> }

TokenLen ==
    ("/" :> 1) @@ (NUL :> 1) @@ ("x" :> 1) @@ ("zb" :> 2) @@ ("opt" :> 3) @@
    ("MH_MAGIC_64" :> 4) @@
    ("usr" :> 3) @@ ("bin" :> 3) @@ ("home" :> 4) @@ ("perl" :> 4) @@ ("java" :> 4) @@
    ("local" :> 5) @@ ("prefix" :> 6) @@ ("Cellar" :> 6) @@ ("Library" :> 7) @@
    ("homebrew" :> 8) @@ ("Homebrew" :> 8) @@ ("zerobrew" :> 8) @@
    ("linuxbrew" :> 9) @@ (".linuxbrew" :> 10) @@
    ("@@HOMEBREW_PERL@@" :> 17) @@ ("@@HOMEBREW_JAVA@@" :> 17) @@
    ("@@HOMEBREW_PREFIX@@" :> 19) @@ ("@@HOMEBREW_CELLAR@@" :> 19) @@
    ("@@HOMEBREW_LIBRARY@@" :> 20) @@ ("@@HOMEBREW_REPOSITORY@@" :> 23)

\* as_bytes().len()
RECURSIVE byte_len(_)
byte_len(s) == IF s = <<>> THEN 0 ELSE TokenLen[Head(s)] + byte_len(Tail(s))

\* what a file is put together from
Chunks ==
    {HOMEBREW_PREFIXES[k] : k \in 1..Len(HOMEBREW_PREFIXES)}
        \cup {<<"/">>, <<NUL>>, <<"x">>, <<"@@HOMEBREW_PREFIX@@">>}

RECURSIVE concat(_)
concat(cs) == IF cs = <<>> THEN <<>> ELSE Head(cs) \o concat(Tail(cs))

FileContents == {concat(cs) : cs \in UNION {[1..n -> Chunks] : n \in 0..MaxChunks}}

\* st_mode, by the owner's bits: 0o755 and 0o555
Modes == {{"r", "w", "x"}, {"r", "x"}}
\* the mode File::create gives a new file: 0o666 less the umask
CreateMode == {"r", "w"}

\* str::replace: every match of from, left to right, none overlapping
RECURSIVE replace(_, _, _)
replace(s, from, to) ==
    IF Len(s) < Len(from) THEN s
    ELSE IF SubSeq(s, 1, Len(from)) = from
         THEN to \o replace(SubSeq(s, Len(from) + 1, Len(s)), from, to)
         ELSE <<Head(s)>> \o replace(Tail(s), from, to)

contains(s, pat) == \E i \in 1..(Len(s) - Len(pat) + 1) : SubSeq(s, i, i + Len(pat) - 1) = pat

\* the strings that hold "@@HOMEBREW_"
Placeholders ==
    {"@@HOMEBREW_PREFIX@@", "@@HOMEBREW_CELLAR@@", "@@HOMEBREW_REPOSITORY@@",
     "@@HOMEBREW_LIBRARY@@", "@@HOMEBREW_PERL@@", "@@HOMEBREW_JAVA@@"}

\* the chain of replace calls on the @@HOMEBREW_...@@ placeholders
replace_placeholders(text, new_prefix, new_cellar) ==
    LET c1 == replace(text, <<"@@HOMEBREW_PREFIX@@">>, new_prefix)
        c2 == replace(c1, <<"@@HOMEBREW_CELLAR@@">>, new_cellar)
        c3 == replace(c2, <<"@@HOMEBREW_REPOSITORY@@">>, new_prefix)
        c4 == replace(c3, <<"@@HOMEBREW_LIBRARY@@">>, new_prefix \o <<"/", "Library">>)
        c5 == replace(c4, <<"@@HOMEBREW_PERL@@">>, <<"/", "usr", "/", "bin", "/", "perl">>)
    IN replace(c5, <<"@@HOMEBREW_JAVA@@">>, <<"/", "usr", "/", "bin", "/", "java">>)

\* for old_prefix in HOMEBREW_PREFIXES, from the k-th on: replace it unless
\* it is the new prefix
RECURSIVE replace_prefixes(_, _, _)
replace_prefixes(text, new_prefix, k) ==
    IF k > Len(HOMEBREW_PREFIXES) THEN text
    ELSE IF HOMEBREW_PREFIXES[k] = new_prefix
         THEN replace_prefixes(text, new_prefix, k + 1)
         ELSE replace_prefixes(replace(text, HOMEBREW_PREFIXES[k], new_prefix),
                               new_prefix, k + 1)

\* patch_text_file_strings: the texts of the file when it returns.  A file
\* with a NUL in what was read of it, or with none of the strings looked for,
\* is left alone; fs::write keeps the file and its mode.
patch_text_file_strings(text, new_prefix, new_cellar) ==
    IF \E i \in 1..Len(text) : text[i] = NUL THEN text
    ELSE IF ~ \/ \E i \in 1..Len(text) : text[i] \in Placeholders
              \/ contains(text, <<"/", "opt", "/", "homebrew">>)
              \/ contains(text, <<"/", "usr", "/", "local">>)
              \/ contains(text, <<"/", "home", "/", "linuxbrew">>)
         THEN text
         ELSE replace_prefixes(replace_placeholders(text, new_prefix, new_cellar),
                               new_prefix, 1)

\* matches!(next, None | Some(0) | Some(b'/')) for the entry at j
is_path_boundary(contents, j) ==
    \/ j > Len(contents)
    \/ contents[j] = NUL
    \/ contents[j] = "/"

zero_fill_none(n) == <<>>

\* for item in contents.iter_mut().take(..).skip(..) { *item = 0 }
zero_fill(n) == [k \in 1..n |-> NUL]

\* the while loop over i for one old prefix: where old_bytes stand at i before
\* a path boundary, new_bytes are copied over them and the rest of them is
\* set to zero; the scan goes on at i + 1 in the changed buffer
RECURSIVE scan_prefix(_, _, _, _)
scan_prefix(contents, old_bytes, new_bytes, i) ==
    IF i + Len(old_bytes) - 1 > Len(contents) THEN contents
    ELSE IF /\ SubSeq(contents, i, i + Len(old_bytes) - 1) = old_bytes
            /\ is_path_boundary(contents, i + Len(old_bytes))
         THEN scan_prefix(SubSeq(contents, 1, i - 1) \o new_bytes
                              \o zero_fill(byte_len(old_bytes) - byte_len(new_bytes))
                              \o SubSeq(contents, i + Len(old_bytes), Len(contents)),
                          old_bytes, new_bytes, i + 1)
         ELSE scan_prefix(contents, old_bytes, new_bytes, i + 1)

\* for old_prefix in HOMEBREW_PREFIXES, from the k-th on: skip the new prefix
\* itself and every old prefix shorter than the new one
RECURSIVE patch_prefixes(_, _, _)
patch_prefixes(contents, new_prefix, k) ==
    IF k > Len(HOMEBREW_PREFIXES) THEN contents
    ELSE IF \/ HOMEBREW_PREFIXES[k] = new_prefix
            \/ byte_len(new_prefix) > byte_len(HOMEBREW_PREFIXES[k])
         THEN patch_prefixes(contents, new_prefix, k + 1)
         ELSE patch_prefixes(scan_prefix(contents, HOMEBREW_PREFIXES[k], new_prefix, 1),
                             new_prefix, k + 1)

\* original_mode & 0o200 == 0
is_readonly(mode) == "w" \notin mode

\* patch_macho_binary_strings on a file that no other thread touches: the file
\* when the function returns.  A read-only file is made writable; changed
\* contents are written to a new file at the temp path, which is renamed over
\* the path; only a file that was read-only has its mode set again.
patch_macho_binary_strings(file, new_prefix) ==
    LET original_mode == file.mode
        contents == patch_prefixes(file.contents, new_prefix, 1)
        opened == [file EXCEPT !.mode = IF is_readonly(original_mode)
                                        THEN original_mode \cup {"w"} ELSE @]
        renamed == IF contents # file.contents
                   THEN [contents |-> contents, mode |-> CreateMode]
                   ELSE opened
    IN IF is_readonly(original_mode) THEN [renamed EXCEPT !.mode = original_mode]
       ELSE renamed

PatchInit ==
    /\ DlOff /\ InstOff /\ AuthOff /\ RaceOff /\ PlanOff /\ ApiOff /\ StreamOff
    /\ blobs = {}
    /\ \E new_prefix \in NewPrefixes, contents \in FileContents, mode \in Modes :
           patch = [new_prefix |-> new_prefix,
                    file |-> [contents |-> contents, mode |-> mode],
                    calls |-> <<>>]

\* one call of patch_text_file_strings(path, prefix_str, cellar_str), where
\* the cellar is <prefix>/Cellar
PatchText ==
    /\ Len(patch.calls) < MaxPasses
    /\ LET after == [patch.file EXCEPT !.contents =
                         patch_text_file_strings(@, patch.new_prefix,
                                                 patch.new_prefix \o <<"/", "Cellar">>)]
       IN patch' = [patch EXCEPT
                       !.file = after,
                       !.calls = Append(@, [fn |-> "text", before |-> patch.file,
                                            after |-> after])]
    /\ UNCHANGED patchOthers

\* one call of patch_macho_binary_strings(path, prefix_str)
PatchMacho ==
    /\ Len(patch.calls) < MaxPasses
    /\ LET after == patch_macho_binary_strings(patch.file, patch.new_prefix)
       IN patch' = [patch EXCEPT
                       !.file = after,
                       !.calls = Append(@, [fn |-> "macho", before |-> patch.file,
                                            after |-> after])]
    /\ UNCHANGED patchOthers

PatchNext == PatchText \/ PatchMacho

PatchSpec == PatchInit /\ [][PatchNext]_vars

(***************************************************************************)
(* MachoPassSpec: the first pass of patch_homebrew_placeholders, which     *)
(* runs patch_macho_binary_strings on the Mach-O files of a keg in         *)
(* parallel; here the files of one directory, one call per file, each call *)
(* taken step by step.                                                     *)
(***************************************************************************)
\* Mach-O files in the directory
NMachoFiles == 2

\* file names, split at their dots
MachoNames == << <<"foo">>, <<"foo", "dylib">>, <<"libx", "dylib">>, <<"libx", "so">> >>

\* Path::with_extension: the extension, if the name has one, gives way to ext
with_extension(name, ext) ==
    IF Len(name) = 1 THEN name \o <<ext>>
    ELSE SubSeq(name, 1, Len(name) - 1) \o <<ext>>

\* what the Mach-O files hold: the magic number, a path below a legacy
\* prefix, a NUL; all of one length
MachoContents ==
    { <<"MH_MAGIC_64", "/", "opt", "/", "homebrew", "/", "opt", NUL>>,
      <<"MH_MAGIC_64", "/", "opt", "/", "homebrew", "/", "bin", NUL>> }

MachoTasks == 1..NMachoFiles

\* the kegs: NMachoFiles names in the order of MachoNames
MachoKegs ==
    {f \in [MachoTasks -> 1..Len(MachoNames)] :
        \A t, u \in MachoTasks : t < u => f[t] < f[u]}

MachoPassInit ==
    /\ DlOff /\ InstOff /\ AuthOff /\ RaceOff /\ PlanOff /\ ApiOff /\ StreamOff
    /\ blobs = {}
    /\ \E keg \in MachoKegs,
          cs \in [MachoTasks -> MachoContents],
          ms \in [MachoTasks -> Modes],
          new_prefix \in {<<"/", "zb">>, <<"/", "opt", "/", "zerobrew", "/", "prefix">>} :
           patch = [new_prefix |-> new_prefix,
                    \* the directory: name -> file; the files: their bytes and mode
                    dir |-> [n \in {MachoNames[keg[t]] : t \in MachoTasks} |->
                                CHOOSE t \in MachoTasks : MachoNames[keg[t]] = n],
                    inodes |-> [t \in MachoTasks |-> [contents |-> cs[t], mode |-> ms[t]]],
                    shipped |-> [t \in MachoTasks |-> cs[t]],
                    th |-> [t \in MachoTasks |->
                               [pc |-> "start", path |-> MachoNames[keg[t]],
                                original_mode |-> {}, contents |-> <<>>,
                                temp_file |-> 0, result |-> "none"]]]

set_mode(inodes_, ino, mode) == [inodes_ EXCEPT ![ino].mode = mode]

\* fs::metadata, set_permissions, File::open, read_to_end and the loop over
\* the prefixes; a file that stays as it is has its mode set again and the
\* call returns
MachoRead(t) ==
    LET me == patch.th[t]
        ino == patch.dir[me.path]
        file == patch.inodes[ino]
        contents == patch_prefixes(file.contents, patch.new_prefix, 1)
    IN /\ me.pc = "start"
       /\ me.path \in DOMAIN patch.dir
       /\ IF contents # file.contents
          THEN patch' = [patch EXCEPT
                   !.inodes = IF is_readonly(file.mode)
                              THEN set_mode(@, ino, file.mode \cup {"w"}) ELSE @,
                   !.th[t] = [me EXCEPT !.pc = "create", !.original_mode = file.mode,
                                        !.contents = contents]]
          ELSE patch' = [patch EXCEPT
                   !.th[t] = [me EXCEPT !.pc = "done", !.original_mode = file.mode,
                                        !.result = "Ok"]]
       /\ UNCHANGED patchOthers

\* fs::File::create(&temp_path): a new empty file, or the file that is at
\* the temp path already, cut to no bytes
MachoCreate(t) ==
    LET me == patch.th[t]
        staged_path == with_extension(me.path, "tmp_patch")
        fresh == Len(patch.inodes) + 1
    IN /\ me.pc = "create"
       /\ IF staged_path \in DOMAIN patch.dir
          THEN patch' = [patch EXCEPT
                   !.inodes[patch.dir[staged_path]].contents = <<>>,
                   !.th[t] = [me EXCEPT !.pc = "write",
                                        !.temp_file = patch.dir[staged_path]]]
          ELSE patch' = [patch EXCEPT
                   !.inodes = Append(@, [contents |-> <<>>, mode |-> CreateMode]),
                   !.dir = [n \in DOMAIN @ \cup {staged_path} |->
                               IF n = staged_path THEN fresh ELSE @[n]],
                   !.th[t] = [me EXCEPT !.pc = "write", !.temp_file = fresh]]
       /\ UNCHANGED patchOthers

\* temp_file.write_all(&contents) and drop(temp_file): from the start of the
\* file, which holds no more bytes than are written
MachoWrite(t) ==
    LET me == patch.th[t]
    IN /\ me.pc = "write"
       /\ patch' = [patch EXCEPT
                       !.inodes[me.temp_file].contents = me.contents,
                       !.th[t] = [me EXCEPT !.pc = "rename", !.temp_file = 0]]
       /\ UNCHANGED patchOthers

\* fs::rename(&temp_path, path); its failure is returned with `?`
MachoRename(t) ==
    LET me == patch.th[t]
        staged_path == with_extension(me.path, "tmp_patch")
    IN /\ me.pc = "rename"
       /\ IF staged_path \in DOMAIN patch.dir
          THEN patch' = [patch EXCEPT
                   !.dir = [n \in DOMAIN @ \ {staged_path} |->
                               IF n = me.path THEN @[staged_path] ELSE @[n]],
                   !.th[t] = [me EXCEPT !.pc = "restore"]]
          ELSE patch' = [patch EXCEPT
                   !.th[t] = [me EXCEPT !.pc = "done", !.result = "StoreCorruption"]]
       /\ UNCHANGED patchOthers

\* codesign, then the mode of a file that was read-only is set again
MachoRestore(t) ==
    LET me == patch.th[t]
    IN /\ me.pc = "restore"
       /\ patch' = [patch EXCEPT
                       !.inodes = IF is_readonly(me.original_mode)
                                  THEN set_mode(@, patch.dir[me.path], me.original_mode)
                                  ELSE @,
                       !.th[t] = [me EXCEPT !.pc = "done", !.result = "Ok"]]
       /\ UNCHANGED patchOthers

MachoPassNext ==
    \E t \in MachoTasks :
        \/ MachoRead(t)
        \/ MachoCreate(t)
        \/ MachoWrite(t)
        \/ MachoRename(t)
        \/ MachoRestore(t)

MachoPassSpec == MachoPassInit /\ [][MachoPassNext]_vars

(***************************************************************************)
(* Properties of the parallel downloader (checked under DlSpec)            *)
(***************************************************************************)
Requesters(s) == {t \in Tasks : req[t] = s}
Downloading(s) == {t \in Requesters(s) : pc[t] \in {"downloading", "streaming"}}
Holders == {t \in Tasks : pc[t] \in {"holding", "downloading", "streaming", "notify"}}
AllDone == \A t \in Tasks : pc[t] = "done"
\* tasks that registered the in-flight entry themselves and have finished
FinishedLeaders(s) == {t \in Requesters(s) : pc[t] = "done" /\ rx[t] = 0}

\* C2: at every instant at most one network download is in flight for any
\* given sha256, over all callers sharing the in-flight map.
C2_OneDownloadPerSha ==
    \A s \in DlShas : Cardinality(Downloading(s)) <= 1

\* a download is in flight while another caller for the same sha256 waits on
\* its broadcast channel
C2_Witness ==
    \E t1, t2 \in Tasks :
        /\ t1 # t2 /\ req[t1] = req[t2]
        /\ pc[t1] \in {"downloading", "streaming"} /\ pc[t2] = "waiting" /\ rx[t2] = t1

C4_SubscriberOutcome ==
    \A t \in Tasks :
        (pc[t] = "done" /\ rx[t] # 0) =>
            /\ result[rx[t]].ok => result[t] = result[rx[t]]
            /\ ~result[rx[t]].ok =>
                  /\ ~result[t].ok
                  /\ result[t].kind = "NetworkFailure"
                  /\ result[t].message = to_string(result[rx[t]])

\* a subscriber has returned from a download that failed with ChecksumMismatch
C4_Witness ==
    \E t \in Tasks :
        /\ pc[t] = "done" /\ rx[t] # 0
        /\ result[rx[t]].kind = "ChecksumMismatch"

\* C5: the number of callers between acquiring and releasing a semaphore
\* permit never exceeds the configured concurrency.
C5_WithinConcurrency ==
    Cardinality(Holders) <= Concurrency

\* every permit is taken while one more downloader, for yet another sha256,
\* waits for one
C5_Witness ==
    /\ Cardinality(Holders) = Concurrency
    /\ \E t \in Tasks : pc[t] = "acquire"
    /\ Cardinality({req[t] : t \in Holders \cup {u \in Tasks : pc[u] = "acquire"}})
          > Concurrency

\* the step in which the downloading caller t returns
Finishes(t) == pc[t] = "notify" /\ pc'[t] = "done"
\* the callers subscribed to the channel t created that have not returned
Subscribers(t) == {u \in Tasks : pc[u] = "waiting" /\ rx[u] = t}
\* no caller for the sha256 is between registering the entry and removing it
NoLeader(s) == \A u \in Requesters(s) : pc[u] \in {"start", "waiting", "done"}

\* C37: whenever the caller performing a download for a sha256 finishes, with
\* success or with any error, the in-flight entry of that sha256 is removed
\* and every subscribed caller eventually receives a result; no caller waits
\* forever, a caller arriving afterwards starts a fresh attempt, and once all
\* callers have returned the in-flight map is empty. A caller that has
\* returned stays returned, so "all callers eventually return" covers every
\* waiting caller.
C37_DedupCleansUp ==
    /\ [][\A t \in Tasks :
             /\ Finishes(t) =>
                    /\ req[t] \notin DOMAIN inflight'
                    /\ \A u \in Subscribers(t) : chan'[t].sent
             /\ (pc[t] = "start" /\ pc'[t] # "start" /\ NoLeader(req[t])) =>
                    /\ pc'[t] = "acquire"
                    /\ rx'[t] = 0
                    /\ inflight'[req[t]] = t]_vars
    /\ [](AllDone => DOMAIN inflight = {})
    /\ <>AllDone

\* all callers have returned: one subscribed to a download that failed and got
\* its error, another arrived after the entry was removed and downloaded anew
C37_Witness ==
    /\ AllDone
    /\ \E t, u, v \in Tasks :
          /\ req[t] = req[u] /\ req[u] = req[v]
          /\ rx[u] = t /\ ~result[t].ok /\ ~result[u].ok
          /\ v # t /\ rx[v] = 0 /\ gets[req[v]] = 2

\* tasks between the opening of their blob writer and its commit or drop
Streaming == {t \in Tasks : pc[t] = "streaming"}

\* every blob in the cache holds the bytes its name promises, the temp files
\* are those of the downloads still streaming, and a download that has just
\* returned an error left no blob for its sha256
C19_CacheState ==
    /\ \A s \in blobs : s \in DOMAIN content /\ content[s] = s
    /\ tmp = {temp_path(req[t]) : t \in Streaming}
    /\ \A t \in Tasks :
          (pc[t] = "notify" /\ ~result[t].ok) => req[t] \notin blobs

\* what one run of the body loop leaves behind, by the body that arrived
C19_StreamStep ==
    \A t \in Tasks, body \in Bodies :
        DlStream(t, body) =>
            /\ body = "bad_body" =>
                  /\ result'[t] = Err("ChecksumMismatch", req[t])
                  /\ req[t] \notin blobs'
                  /\ temp_path(req[t]) \notin tmp'
            /\ body = "stream_error" =>
                  /\ ~result'[t].ok /\ result'[t].kind = "NetworkFailure"
                  /\ req[t] \notin blobs'
                  /\ temp_path(req[t]) \notin tmp'
            /\ req[t] \in blobs' =>
                  /\ body = "ok"
                  /\ content'[req[t]] = req[t]
                  /\ result'[t] = Ok(blob_path(req[t]))

\* C19: a blob exists at cache/blobs/<sha>.tar.gz after a download only if the
\* whole response body was received and its SHA-256 equals the expected sha: a
\* digest mismatch fails with ChecksumMismatch and a stream that ends in error
\* fails with NetworkFailure, and in both cases no final blob and no temp file
\* for that sha remain.
C19_BlobOnlyWhenVerified == [](C19_CacheState) /\ [][C19_StreamStep]_vars

\* one download has just failed on a digest mismatch, another has failed on a
\* broken stream, and a third has committed its blob
C19_Witness ==
    \E t1, t2, t3 \in Tasks :
        /\ pc[t1] = "notify" /\ result[t1] = Err("ChecksumMismatch", req[t1])
        /\ pc[t2] \in {"notify", "done"} /\ rx[t2] = 0
        /\ result[t2] = Err("NetworkFailure", "failed to read chunk")
        /\ pc[t3] \in {"notify", "done"} /\ rx[t3] = 0
        /\ result[t3].ok /\ req[t3] \in blobs /\ gets[req[t3]] = 1
        /\ req[t1] \notin blobs /\ req[t2] \notin blobs /\ tmp = {}

\* C20: if the blob for expected_sha already exists in the cache, download
\* returns its path without sending any request to the server.
C20_CachedBlobNoRequest ==
    [][\A t \in Tasks :
          (pc[t] = "holding" /\ req[t] \in blobs /\ pc'[t] # "holding") =>
              /\ result'[t] = Ok(blob_path(req[t]))
              /\ pc'[t] = "notify"
              /\ gets' = gets
              /\ UNCHANGED <<blobs, tmp, content>>]_vars

\* a caller that arrived after the downloader of its sha256 had returned has
\* taken the blob from the cache: two callers registered a download of their
\* own, both hold the path and the server saw one GET
C20_Witness ==
    \E t, u \in Tasks :
        /\ t # u /\ req[t] = req[u] /\ rx[t] = 0 /\ rx[u] = 0
        /\ pc[u] = "done" /\ pc[t] = "notify"
        /\ result[t] = Ok(blob_path(req[t])) /\ result[u] = result[t]
        /\ gets[req[t]] = 1 /\ served[req[t]] = 0

(***************************************************************************)
(* Properties of the installer (checked under Spec and ExecSpec)           *)
(***************************************************************************)
RowsOf(k) == {n \in Names : installed[n] # NoRow /\ installed[n].store_key = k}

\* C1: after any sequence of install, uninstall and gc, for every store key
\* the refcount recorded in store_refs equals the number of installed rows
\* whose store_key is that key
C1_RefcountMatchesRows ==
    \A k \in InstShas : refcount(store_refs, k) = Cardinality(RowsOf(k))

\* C6: for every row of the installed table the store entry of its store_key
\* exists; gc never removes a store entry an installed row references
C6_InstalledHaveStore ==
    \A n \in Names : installed[n] # NoRow => installed[n].store_key \in store

\* gc has just removed an entry while another formula stays installed
C6_Witness ==
    /\ phase = "idle"
    /\ last.op = "gc"
    /\ mon.gc_store \ store # {}
    /\ \E n \in Names : installed[n] # NoRow /\ installed[n].store_key \in store

\* C7: gc removes exactly the store entries whose refcount is 0 and returns
\* exactly their keys
C7_GcExact ==
    phase = "idle" /\ last.op = "gc" =>
        LET zero == {k \in mon.gc_store :
                        k \in DOMAIN store_refs /\ store_refs[k] = 0}
        IN  /\ store = mon.gc_store \ zero
            /\ last.removed = zero

\* C8: the second of two identical installs changes nothing in the database:
\* the installed rows, the refcounts and the linked_files rows are those the
\* first install left
C8_ReinstallNoOp ==
    phase = "idle" /\ last.op = "install" /\ last.ok /\ mon.repeat => Db = mon.db

\* C9: install(p); uninstall(p); gc() of a formula new to the root leaves no
\* installed row, no linked_files row, no keg, no bin or opt symlink, no
\* store entry and no store_refs row of p
C9_InstallUninstallGcRestores ==
    phase = "idle" /\ last.op = "gc" /\ mon.triple.stage = 3 /\ mon.triple.new =>
        LET n == mon.triple.name
            v == mon.triple.version
            k == mon.triple.sha
        IN  /\ installed[n] = NoRow
            /\ \A r \in LinkRows : r[1] = n => linked_files[r] = 0
            /\ <<n, v>> \notin kegs
            /\ \A f \in Files : bin[f].to.name # n
            /\ opt[n] = Empty
            /\ k \notin store
            /\ k \notin DOMAIN store_refs

\* C10: when more than one package of a plan fails, execute returns the
\* first error the receive loop observed
C10_ReturnsFirstError ==
    phase = "idle" /\ last.op = "install" /\ ~last.ok => last.err = last.first_err

\* C11: when a package of the plan fails in any stage, execute writes nothing
\* to the database, also not for the packages that completed, and it returns
\* an error only after every download has delivered its result
C11_FailedExecuteWritesNothing ==
    [][/\ phase' = "recv" => UNCHANGED <<installed, store_refs, linked_files>>
       /\ (phase = "recv" /\ phase' = "idle" /\ exec.first_error # NoResult) =>
              /\ UNCHANGED <<installed, store_refs, linked_files>>
              /\ exec.pending = {}
              /\ ~last'.ok]_vars

\* an execute without linking has failed after another package of its plan
\* was materialized, and that package has no installed row
C11_Witness ==
    /\ phase = "idle" /\ last.op = "install" /\ ~last.ok /\ ~last.link
    /\ \E i \in 1..Len(last.plan) :
          /\ <<last.plan[i].name, last.plan[i].version>> \in kegs
          /\ installed[last.plan[i].name] = NoRow

\* the names of a plan that execute installs, in plan order
PlanNames(plan) ==
    LET kept == SelectSeq(plan, LAMBDA p : p.name \notin {last.skipped[j] : j \in 1..Len(last.skipped)})
    IN  [i \in 1..Len(kept) |-> kept[i].name]

\* C34: store entries created by an execute that ended without a database
\* commit, because another package of the plan failed, are reclaimable: the
\* gc that follows removes them.
C34_PartialWorkReclaimed ==
    [][(/\ phase = "idle" /\ last.op = "install" /\ ~last.ok
        /\ ops_left' # ops_left /\ last'.op = "gc") =>
           \A k \in store :
               (\A n \in Names : installed[n].store_key # k) => k \notin store']_vars

\* C12: within one execute the transactions commit in plan order, whatever
\* the order in which the downloads completed
C12_CommitsInPlanOrder ==
    phase = "idle" /\ last.op = "install" /\ last.ok =>
        last.committed = PlanNames(last.plan)

\* an execute of two packages succeeded although the second package of the
\* plan was received first
C12_Witness ==
    /\ phase = "idle" /\ last.op = "install" /\ last.ok
    /\ last.arrival = <<2, 1>>
    /\ Len(last.committed) = 2

\* C13: after any sequence of install, uninstall and gc, for every
\* linked_files row the symlink at its link path exists and resolves to the
\* keg file that is its target path
C13_LinkedRowsHaveSymlinks ==
    \A r \in LinkRows :
        linked_files[r] > 0 =>
            /\ bin[r[3]] = Symlink(KegFile(r[1], r[2], r[3]))
            /\ <<r[1], r[2]>> \in kegs

\* a formula was uninstalled while the linked_files rows of another formula
\* stay
C13_Witness ==
    /\ phase = "idle" /\ last.op = "uninstall" /\ last.ok
    /\ \E r \in LinkRows : linked_files[r] > 0

(***************************************************************************)
(* Properties of the linker (checked under LinkSpec)                       *)
(***************************************************************************)
\* the step is a call of link_keg, of unlink_keg
IsLinkCall == ops_left' = ops_left - 1 /\ last'.op = "link"
IsUnlinkCall == ops_left' = ops_left - 1 /\ last'.op = "unlink"

\* the bin paths of the keg of n at v that hold a regular file or a symlink
\* resolving to an existing path other than the keg's file
Conflicting(n, v) ==
    {f \in BinFiles(n) :
        \/ bin[f].type = "file"
        \/ /\ bin[f].type = "symlink"
           /\ resolves(resolved_existing(bin[f].to), kegs)
           /\ resolved_existing(bin[f].to) # KegFile(n, v, f)}

\* C14: when a bin path is occupied by a regular file or by a symlink,
\* absolute or relative, that resolves to an existing path other than the
\* keg's file, link_keg fails with LinkConflict naming such a path, and every
\* such file or symlink is left as it was
C14_ConflictRefused ==
    [][IsLinkCall /\ Conflicting(last'.name, last'.version) # {} =>
          /\ ~last'.ok
          /\ last'.err.kind = "LinkConflict"
          /\ last'.err.message \in Conflicting(last'.name, last'.version)
          /\ \A f \in Conflicting(last'.name, last'.version) : bin'[f] = bin[f]]_vars

\* link_keg has failed on a path that holds a relative symlink to a foreign
\* file, after it linked the keg's other executable
C14_Witness ==
    /\ last.op = "link" /\ ~last.ok
    /\ bin[last.err.message] = Symlink(ForeignRel)
    /\ \E f \in BinFiles(last.name) :
          bin[f] = Symlink(KegFile(last.name, last.version, f))

\* C15: when a bin path holds a symlink whose target no longer exists, and
\* no other path of the keg is in conflict, link_keg replaces it by a symlink
\* to the keg's file, records it and succeeds
C15_BrokenSymlinkReplaced ==
    [][LET n == last'.name
           v == last'.version
           broken == {f \in BinFiles(n) : bin[f] = Symlink(Gone)}
           free == {f \in BinFiles(n) :
                       bin[f] \in {Empty, Symlink(KegFile(n, v, f))}}
       IN  (IsLinkCall /\ broken # {} /\ broken \cup free = BinFiles(n)) =>
              /\ last'.ok
              /\ \A f \in broken :
                    /\ bin'[f] = Symlink(KegFile(n, v, f))
                    /\ \E i \in 1..Len(last'.linked) : last'.linked[i] = f]_vars

\* link_keg has succeeded on a keg one of whose bin paths held a broken
\* symlink when it was called
C15_Witness ==
    /\ last.op = "link" /\ last.ok
    /\ \E f \in BinFiles(last.name) :
          /\ last.found[f] = Symlink(Gone)
          /\ bin[f] = Symlink(KegFile(last.name, last.version, f))

Range(q) == {q[i] : i \in 1..Len(q)}

\* C16: link_keg(k) followed by link_keg(k) succeeds both times, the second
\* call returns the LinkedFile records of the first (in the same order when
\* the directory is listed in the same order) and leaves bin and opt as the
\* first call left them
C16_RelinkIdempotent ==
    [][(/\ IsLinkCall
        /\ last.op = "link" /\ last.ok
        /\ last'.name = last.name /\ last'.version = last.version) =>
           /\ last'.ok
           /\ Range(last'.linked) = Range(last.linked)
           /\ Len(last'.linked) = Len(last.linked)
           /\ last'.order = last.order => last'.linked = last.linked
           /\ bin' = bin
           /\ opt' = opt]_vars

\* the second of two link_keg calls for a keg with two executables has
\* returned
C16_Witness ==
    /\ last.op = "link" /\ last.ok /\ last.again
    /\ Len(last.linked) = 2

\* C17: unlink_keg removes a bin entry or the opt entry only if it is a
\* symlink whose canonical target is this keg's file, or this keg; every
\* other entry of the prefix stays and is not reported as unlinked
C17_UnlinkOnlyOwn ==
    [][IsUnlinkCall =>
          LET n == last'.name
              v == last'.version
          IN  /\ \A f \in Files :
                    bin'[f] # bin[f] =>
                        bin[f] = Symlink(KegFile(n, v, f)) /\ bin'[f] = Empty
              /\ \A m \in Names :
                    opt'[m] # opt[m] =>
                        m = n /\ opt[m] = Symlink(KegDir(n, v)) /\ opt'[m] = Empty
              /\ \A f \in Range(last'.linked) :
                    bin[f] = Symlink(KegFile(n, v, f))]_vars

\* unlink_keg has removed the keg's own symlink and left a foreign symlink
\* at the keg's other executable and a foreign opt link
C17_Witness ==
    /\ last.op = "unlink"
    /\ Len(last.linked) = 1
    /\ \E f \in BinFiles(last.name) :
          last.found[f] = Symlink(Foreign) /\ bin[f] = Symlink(Foreign)
    /\ opt[last.name] = Symlink(Foreign)

\* C18: link_keg returns a LinkedFile record for every file under the keg's
\* bin, lib, libexec, include and share directories
C18_AllTreesLinked ==
    last.op = "link" /\ last.ok =>
        \A e \in KegFiles(last.name) :
            e[1] \in {"bin", "lib", "libexec", "include", "share"} =>
                e[2] \in Range(last.linked)

\* C36: link_keg is all-or-nothing with respect to conflicts: when it fails
\* with LinkConflict for a keg with several executables, none of that keg's
\* symlinks, bin entries or the opt link, has been created in the prefix,
\* whichever order the directory entries are visited in.
C36_LinkAllOrNothing ==
    [][\A n \in Names, v \in Versions :
          (/\ ops_left' # ops_left
           /\ last'.op = "link" /\ last'.name = n /\ last'.version = v
           /\ ~last'.ok /\ last'.err.kind = "LinkConflict"
           /\ Cardinality(BinFiles(n)) >= 2) =>
              /\ \A f \in BinFiles(n) :
                    bin'[f] = Symlink(KegFile(n, v, f)) => bin[f] = bin'[f]
              /\ opt'[n] = Symlink(KegDir(n, v)) => opt[n] = opt'[n]]_vars

(***************************************************************************)
(* Properties of the bearer-token handshake (checked under AuthSpec)       *)
(***************************************************************************)
\* C21: on a 401 response to the bottle GET, download obtains a bearer token
\* for the challenged scope and retries the GET exactly once with
\* 'Authorization: Bearer <token>'; a 401 on that retry fails with
\* NetworkFailure. Hence one download sends at most two GETs to the bottle URL
\* and at most one token request. A 401 is read as one that carries a
\* challenge, and the retry as following a token that was obtained.
C21_RetriesOnce ==
    \A d \in Downloads :
        LET a == adl[d] IN
        /\ Len(a.sent) <= 2
        /\ a.treqs <= 1
        /\ Len(a.sent) = 2 =>
              /\ a.seen[1] = "401"
              /\ a.sent[2].token # NoToken
              /\ a.sent[2].token.scope = challenge_scope(a.url)
        /\ (a.pc = "done" /\ a.seen # <<>> /\ a.seen[1] = "401") =>
              \/ Len(a.sent) = 2
              \/ /\ a.treqs = 1
                 /\ a.result = Err("NetworkFailure", "token request returned HTTP 500")
        /\ (a.pc = "done" /\ Len(a.seen) = 2 /\ a.seen[2] \in {"401", "401_bare"}) =>
              ~a.result.ok /\ a.result.kind = "NetworkFailure"

\* a download was challenged, asked the token endpoint once, sent the GET a
\* second time with the token and failed on the 401 that came back
C21_Witness ==
    \E d \in Downloads :
        /\ adl[d].pc = "done"
        /\ adl[d].seen = <<"401", "401">>
        /\ Len(adl[d].sent) = 2 /\ adl[d].treqs = 1
        /\ adl[d].sent[1].token = NoToken
        /\ adl[d].result = Err("NetworkFailure",
                               "authentication failed: token was rejected by server")

\* the tokens in the cache that match the URL and were cached less than
\* TokenTtl seconds ago
FreshFor(url) ==
    {token_cache[sc].token : sc \in {c \in DOMAIN token_cache :
        /\ extract_scope_prefix(url) # NoPrefix
        /\ starts_with(c, extract_scope_prefix(url))
        /\ now - issued[token_cache[c].token.n].at < TokenTtl}}

\* the cache holds, per scope, the token the endpoint returned last for it,
\* expiring TokenTtl seconds after it was cached, and no GET carried a token
\* that old
C22_CacheState ==
    /\ \A n \in 1..Len(issued) :
          /\ issued[n].scope \in DOMAIN token_cache
          /\ token_cache[issued[n].scope].token.n >= n
    /\ \A sc \in DOMAIN token_cache :
          LET c == token_cache[sc] IN
          /\ c.token.scope = sc
          /\ c.token.n \in 1..Len(issued)
          /\ issued[c.token.n].scope = sc
          /\ c.expires_at = issued[c.token.n].at + TokenTtl
    /\ \A d \in Downloads :
          \A i \in 1..Len(adl[d].sent) : ~adl[d].sent[i].stale

\* the first attempt of a download carries a matching token of the cache that
\* is younger than TokenTtl seconds when there is one, and no token otherwise
C22_FirstAttempt ==
    \A d \in Downloads :
        (adl[d].pc = "idle" /\ adl'[d].pc = "get1") =>
            IF FreshFor(adl'[d].url) = {}
            THEN adl'[d].sent[1].token = NoToken
            ELSE adl'[d].sent[1].token \in FreshFor(adl'[d].url)

C38_RejectedTokenNotReused ==
    \A d \in Downloads :
        (/\ Len(adl[d].sent) = 2
         /\ adl[d].sent[1].token # NoToken
         /\ adl[d].seen # <<>> /\ adl[d].seen[1] = "401") =>
            adl[d].sent[2].token # adl[d].sent[1].token

(***************************************************************************)
(* Properties of racing BlobWriters (checked under RaceSpec)               *)
(***************************************************************************)
Live == {w \in Writers : bw[w].pc \in {"open", "renaming"}}
\* the step is a step of commit by w
CommitStep(w) ==
    \/ bw[w].pc = "open" /\ bw'[w].pc = "renaming"
    \/ bw[w].pc = "open" /\ bw'[w].pc = "closed" /\ bw'[w].result # NoResult
    \/ bw[w].pc = "renaming" /\ bw'[w].pc = "closed"
\* the step is the drop of w without commit
DropStep(w) ==
    bw[w].pc = "open" /\ bw'[w].pc = "closed" /\ bw'[w].result = NoResult

\* C23: under every interleaving of two BlobWriters for the same sha256, once a
\* blob exists at the final path a later commit for that sha returns success,
\* removes the committer's own temp file and never replaces or modifies the
\* existing blob.
C23_CommitKeepsBlob ==
    [][\A w \in Writers :
          (final_blob # NoInode /\ CommitStep(w)) =>
              /\ final_blob' = final_blob
              /\ inodes'[final_blob] = inodes[final_blob]
              /\ bw'[w].pc = "closed" =>
                    /\ bw'[w].result = Ok(blob_path(RaceSha))
                    /\ path_of(w) \notin DOMAIN tmp_dir']_vars

\* C24: a BlobWriter that is dropped without commit leaves no final blob for
\* its sha and no temp file in cache/tmp.
C24_DropLeavesNothing ==
    /\ [](/\ (\A w \in Writers : ~bw[w].committed) => final_blob = NoInode
          /\ Live = {} => DOMAIN tmp_dir = {})
    /\ [][\A w \in Writers :
             DropStep(w) =>
                 /\ path_of(w) \notin DOMAIN tmp_dir'
                 /\ final_blob' = final_blob]_vars

\* a writer wrote a chunk and was dropped, no writer is left, and neither a
\* blob nor a temp file exists
C24_Witness ==
    /\ \E w \in Writers :
          /\ bw[w].pc = "closed" /\ bw[w].result = NoResult /\ ~bw[w].committed
          /\ bw[w].offset > 0
    /\ Live = {}
    /\ final_blob = NoInode
    /\ DOMAIN tmp_dir = {}

\* C25: any two BlobWriters for the same sha256 that are live at the same time
\* (including two async tasks interleaved on one worker thread of one process)
\* stage to different temp paths, so neither writes into nor deletes the
\* other's staging file.
C25_DistinctStaging ==
    \A w, v \in Live :
        w # v => /\ path_of(w) # path_of(v)
                 /\ bw[w].file # bw[v].file

(***************************************************************************)
(* Properties of the Homebrew skip and of uninstall (HbSpec, Spec)         *)
(***************************************************************************)
\* the names of a plan that have a directory in the foreign Cellar, and the
\* entries of the plan that have none, both in plan order
InCellar(plan) == SelectSeq(plan, LAMBDA p : p.name \in hb_cellar)
NotInCellar(plan) == SelectSeq(plan, LAMBDA p : p.name \notin hb_cellar)

\* C26: for every formula of a plan whose name has a directory in the
\* configured foreign Homebrew Cellar, execute issues no download and creates
\* no store entry, keg, symlink or database row for it and lists its name in
\* skipped_homebrew; every other formula is installed; if all are skipped,
\* execute returns installed = 0.
C26_HomebrewSkipped ==
    /\ \A n \in hb_cellar :
          /\ installed[n] = NoRow
          /\ \A v \in Versions : <<n, v>> \notin kegs
          /\ \A f \in BinFiles(n) : bin[f] = Empty
          /\ opt[n] = Empty
          /\ \A r \in LinkRows : r[1] = n => linked_files[r] = 0
    /\ \A k \in store \cup blobs \cup DOMAIN store_refs :
          \E p \in Pkgs : p.sha = k /\ p.name \notin hb_cellar
    /\ phase = "recv" =>
          /\ exec.to_install = NotInCellar(exec.plan)
          /\ \A i \in exec.pending : exec.to_install[i].name \notin hb_cellar
    /\ (last.op = "install" /\ last.ok) =>
          /\ last.skipped = [i \in 1..Len(InCellar(last.plan)) |-> InCellar(last.plan)[i].name]
          /\ last.count = Len(NotInCellar(last.plan))
          /\ \A i \in 1..Len(last.plan) :
                LET p == last.plan[i] IN
                p.name \notin hb_cellar =>
                    /\ installed[p.name] = [version |-> p.version, store_key |-> p.sha]
                    /\ <<p.name, p.version>> \in kegs
                    /\ p.sha \in store

\* a plan of two formulas has returned: the one in the foreign Cellar was
\* skipped and the other one installed
C26_Witness ==
    /\ last.op = "install" /\ last.ok
    /\ Len(last.plan) = 2
    /\ last.skipped = <<last.plan[1].name>>
    /\ last.count = 1
    /\ installed[last.plan[2].name] # NoRow
    /\ installed[last.plan[1].name] = NoRow

\* C27: uninstall(name) for a name with no installed row fails with
\* NotInstalled{name} and changes nothing: no symlink, keg, store entry or
\* database row is touched.
C27_UninstallUnknown ==
    [][\A n \in Names :
          (phase = "idle" /\ phase' = "idle" /\ ops_left' # ops_left
               /\ last'.op = "uninstall" /\ last'.name = n
               /\ installed[n] = NoRow) =>
              /\ ~last'.ok
              /\ last'.err = Err("NotInstalled", n)
              /\ UNCHANGED <<installed, store_refs, linked_files, store, kegs,
                             bin, opt, blobs>>]_vars

\* uninstall of a formula that is not installed has failed on a root where
\* the other formula is installed and linked
C27_Witness ==
    /\ last.op = "uninstall" /\ ~last.ok
    /\ last.err = Err("NotInstalled", last.name)
    /\ installed[last.name] = NoRow
    /\ \E n \in Names : installed[n] # NoRow /\ \E f \in BinFiles(n) : bin[f] # Empty

\* the step in which execute returns Ok after its commit loop
ExecReturnsOk == phase = "recv" /\ phase' = "idle" /\ last'.ok

\* C35: when execute returns Ok, every package of to_install has an installed
\* row carrying its name, stable version and bottle sha256, store_refs holds a
\* reference for that sha256 (on a root that had none, one per package of the
\* call that carries it), its linked files are recorded when link is true, and
\* ExecuteResult.installed equals the number of packages the call committed.
C35_OkMeansRecorded ==
    [][ExecReturnsOk =>
          LET pkgs == exec.to_install
              done == {i \in 1..Len(pkgs) : exec.completed[i].some}
          IN  /\ \A i \in 1..Len(pkgs) :
                    LET p == pkgs[i] IN
                    /\ installed'[p.name] = [version |-> p.version, store_key |-> p.sha]
                    /\ refcount(store_refs', p.sha) >= 1
                    /\ refcount(store_refs, p.sha) = 0 =>
                          refcount(store_refs', p.sha) =
                              Cardinality({j \in 1..Len(pkgs) : pkgs[j].sha = p.sha})
                    /\ exec.link =>
                          \A f \in BinFiles(p.name) :
                              linked_files'[<<p.name, p.version, f>>] >= 1
              /\ last'.op = "install"
              /\ last'.count = Cardinality(done)
              /\ done = 1..Len(pkgs)]_vars

\* an execute with linking returned Ok for a package of a two-formula plan
\* whose other formula was skipped, on a root that had no reference to its
\* store key: the row, the reference and the linked files are there
C35_Witness ==
    /\ phase = "idle" /\ last.op = "install" /\ last.ok /\ last.link
    /\ last.count = 1 /\ Len(last.plan) = 2
    /\ \E i \in 1..2 :
          LET p == last.plan[i] IN
          /\ p.name \notin hb_cellar
          /\ installed[p.name] = [version |-> p.version, store_key |-> p.sha]
          /\ store_refs[p.sha] = 1
          /\ \A f \in BinFiles(p.name) : linked_files[<<p.name, p.version, f>>] = 1

(***************************************************************************)
(* Properties of Installer::plan (checked under PlanSpec and PlanFairSpec) *)
(***************************************************************************)
\* the names of a list of formulas, in its order
names_of(formulas) == [i \in 1..Len(formulas) |-> formulas[i].name]

\* install.rs 195-203 and 293: the order in which execute requests the
\* downloads of a plan and the order in which it commits the packages when
\* each of them completed
requested_order(plan) == names_of(to_install_of(plan))
committed_order(plan) ==
    LET pkgs == to_install_of(plan)
        order == commit_order([i \in 1..Len(pkgs) |-> [some |-> TRUE, linked |-> <<>>]])
    IN  [k \in 1..Len(order) |-> pkgs[order[k]].name]

\* C28: in the list of formulas plan returns, and so in the order of the
\* downloads requested and of the database commits, every dependency comes
\* before each formula that depends on it, and each formula of the
\* transitive closure of the requested name appears exactly once.
C28_PlanOrdered ==
    (ppc = "done" /\ planned.ok) =>
        LET order == names_of(planned.formulas)
        IN  /\ \A i \in 1..Len(order) :
                  \A d \in elems(registry[order[i]].dependencies) :
                      \E j \in 1..(i - 1) : order[j] = d
            /\ \A i, j \in 1..Len(order) : i # j => order[i] # order[j]
            /\ elems(order) = reach(registry, {PlanRoot})
            /\ requested_order(planned.formulas) = order
            /\ committed_order(planned.formulas) = order

\* plan returned a list in which one formula is a dependency of two others
C28_Witness ==
    /\ ppc = "done" /\ planned.ok
    /\ Len(planned.formulas) >= 3
    /\ \E d \in Formulae :
          Cardinality({n \in Formulae : d \in elems(registry[n].dependencies)}) >= 2

\* C29: the breadth-first fetch asks the API for each formula name at most
\* once per plan, whatever the shape of the dependency graph, and it comes to
\* an end on every finite graph, cycles included.
C29_FetchOnce ==
    /\ [](\A n \in Formulae : api_gets[n] <= 1)
    /\ <>(ppc # "fetch")

\* the fetch ended on a graph with a cycle through several formulas in which
\* every name was reached, one of them from two formulas
C29_Witness ==
    /\ ppc = "done"
    /\ planned.kind = "DependencyCycle" /\ Len(planned.cycle) >= 3
    /\ \A n \in Formulae : api_gets[n] = 1
    /\ \E d \in Formulae :
          Cardinality({n \in Formulae : d \in elems(registry[n].dependencies)}) >= 2

(***************************************************************************)
(* Properties of ApiClient::get_formula (checked under ApiSpec)            *)
(***************************************************************************)
\* a step in which get_formula returns
Returns == api_pc = "sent" /\ api_pc' = "idle"

\* C30: get_formula maps the status of the response to its result: a 304
\* that answers a cached entry returns the formula parsed from the cached
\* body, a 404 fails with MissingFormula of the name asked for, every other
\* status outside 2xx fails with NetworkFailure; the cache entry of the URL
\* is written only on a 2xx response.
C30_StatusMapping ==
    [][/\ Returns =>
            LET status == api_result'.status
                entry == api_req.cached_entry
            IN  /\ (status = 304 /\ entry.some /\ parses(entry.body)) =>
                       /\ api_result'.ok
                       /\ api_result'.formula = from_str(entry.body)
                       /\ entry = api_cache.entries[api_req.url]
                /\ status = 404 =>
                       /\ ~api_result'.ok
                       /\ api_result'.kind = "MissingFormula"
                       /\ api_result'.message = api_req.name
                /\ (status \in ApiStatuses \ (200..299)
                        /\ status # 404 /\ ~(status = 304 /\ entry.some)) =>
                       ~api_result'.ok /\ api_result'.kind = "NetworkFailure"
       /\ \A u \in ApiUrls :
              api_cache'.entries[u] # api_cache.entries[u] =>
                  /\ Returns
                  /\ api_result'.status \in 200..299
                  /\ u = api_req.url]_vars

\* a 304 answered a request that carried the validators of a cached entry,
\* and get_formula returned the formula of the cached body
C30_Witness ==
    /\ api_pc = "idle"
    /\ api_result.status = 304 /\ api_result.ok
    /\ api_req.headers # {}
    /\ api_result.formula = from_str(api_req.cached_entry.body)
    /\ api_calls = ApiCalls - 2

(***************************************************************************)
(* Properties of download_streaming (checked under StreamFairSpec)         *)
(***************************************************************************)
\* the items the channel has carried so far, oldest first
delivered == stream.got \o stream.queue

\* C31: download_streaming called with N requests delivers exactly N items,
\* one per request and each tagged with the index of its request, in the
\* order the tasks complete (the channel is first-in first-out: a completing
\* task's item goes behind the items sent before, the loop takes the oldest);
\* then the channel closes and the receive loop ends, at once when N = 0.
C31_StreamDelivers ==
    /\ [](stream.pc = "end" =>
            /\ Len(stream.got) = Len(stream.requests)
            /\ \A k \in 1..Len(stream.got) :
                   /\ "index" \in DOMAIN stream.got[k]
                   /\ stream.got[k].index \in 1..Len(stream.requests)
                   /\ stream.got[k].sha256 = stream.requests[stream.got[k].index].sha256
                   /\ stream.got[k].name = stream.requests[stream.got[k].index].name
            /\ \A k, l \in 1..Len(stream.got) :
                   stream.got[k].index = stream.got[l].index => k = l)
    /\ [][/\ \A k \in 1..Len(delivered) :
                 k <= Len(delivered') /\ delivered'[k] = delivered[k]
          /\ Len(stream.got) <= Len(stream'.got)
          /\ (stream.pc = "loop" /\ stream.requests = <<>>) => stream'.pc = "end"]_vars
    /\ <>(stream.pc = "end")

(***************************************************************************)
(* Properties of the patch functions (checked under PatchSpec)             *)
(***************************************************************************)
\* C32: a second call of the same patch function on a file changes nothing
\* in the file, whatever its contents and the new prefix.
C32_PatchIdempotent ==
    \A k \in 2..Len(patch.calls) :
        patch.calls[k].fn = patch.calls[k - 1].fn =>
            patch.calls[k].after.contents = patch.calls[k].before.contents

\* C39: when patch_macho_binary_strings has returned the file has the mode
\* it had before the call, rewritten or not, read-only or writable.
C39_ModePreserved ==
    \A k \in 1..Len(patch.calls) :
        patch.calls[k].fn = "macho" => patch.calls[k].after.mode = patch.calls[k].before.mode

\* the bytes of a file, one entry a byte: the k-th byte of a name, or a NUL
RECURSIVE bytes_of(_)
bytes_of(s) ==
    IF s = <<>> THEN <<>>
    ELSE [k \in 1..TokenLen[Head(s)] |-> <<Head(s), k>>] \o bytes_of(Tail(s))

\* a legacy prefix the call may overwrite stands in s before a path boundary
overwritable(s, new_prefix) ==
    \E p \in 1..Len(HOMEBREW_PREFIXES) :
        LET old == HOMEBREW_PREFIXES[p]
        IN /\ old # new_prefix
           /\ byte_len(new_prefix) <= byte_len(old)
           /\ \E i \in 1..(Len(s) - Len(old) + 1) :
                  /\ SubSeq(s, i, i + Len(old) - 1) = old
                  /\ \/ i + Len(old) > Len(s)
                     \/ s[i + Len(old)] \in {NUL, "/"}

\* C33: patch_macho_binary_strings never changes the byte length of the file.
\* It changes the file only if a legacy prefix no shorter than the new prefix
\* stands before an end of buffer, a NUL or a '/': then the new prefix is in
\* the file and every byte that changed is a byte of the new prefix or a
\* zero.  A file in which the new prefix is longer than the legacy prefixes
\* it holds stays as it is, byte for byte.  (Stated of the call that
\* returned last: every call is the last one in the state it returns to.)
C33_MachoInPlace ==
    \A k \in {Len(patch.calls)} \ {0} :
        patch.calls[k].fn = "macho" =>
            LET before == patch.calls[k].before.contents
                after == patch.calls[k].after.contents
                b == bytes_of(before)
                a == bytes_of(after)
                n == bytes_of(patch.new_prefix)
            IN /\ byte_len(after) = byte_len(before)
               /\ Len(a) = Len(b)
               /\ ~overwritable(before, patch.new_prefix) => after = before
               /\ overwritable(before, patch.new_prefix) =>
                      /\ after # before
                      /\ contains(after, patch.new_prefix)
               /\ \A j \in 1..Len(a) :
                      a[j] # b[j] => \/ a[j] = <<NUL, 1>>
                                     \/ \E m \in 1..Len(n) : a[j] = n[m]

\* a call has overwritten a legacy prefix with a shorter new prefix and zeros
C33_Witness ==
    \E k \in 1..Len(patch.calls) :
        /\ patch.calls[k].fn = "macho"
        /\ patch.calls[k].after.contents # patch.calls[k].before.contents
        /\ contains(patch.calls[k].after.contents, patch.new_prefix \o <<NUL, "/">>)
        /\ contains(patch.calls[k].before.contents, <<"/", "opt", "/", "homebrew">>)
        /\ byte_len(patch.new_prefix) > byte_len(<<"/", "usr", "/", "local">>)

(***************************************************************************)
(* Properties of the parallel Mach-O pass (checked under MachoPassSpec)    *)
(***************************************************************************)
\* C40: no two files of the pass are staged to one temp path at a time, and
\* the name of each file always leads to that file's own bytes, as shipped
\* or patched, never to the bytes staged for another file.
C40_NoSharedTempPath ==
    /\ \A t, u \in MachoTasks :
           (/\ t # u
            /\ patch.th[t].pc \in {"write", "rename"}
            /\ patch.th[u].pc \in {"write", "rename"}) =>
               with_extension(patch.th[t].path, "tmp_patch")
                   # with_extension(patch.th[u].path, "tmp_patch")
    /\ \A t \in MachoTasks :
           /\ patch.th[t].path \in DOMAIN patch.dir
           /\ patch.inodes[patch.dir[patch.th[t].path]].contents
                  \in {patch.shipped[t],
                       patch_prefixes(patch.shipped[t], patch.new_prefix, 1)}
====
